---- MODULE Spec2Model ----
(***************************************************************************)
(* Brazilian utilities service: payroll tax calculator (tax.ts) and the    *)
(* PIX / boleto codecs (finance.ts), as a request/response state machine.  *)
(*                                                                         *)
(* Amounts are decimal.js Decimals (20 significant digits, ROUND_HALF_UP)  *)
(* and JavaScript numbers (IEEE-754 binary64).  Both are carried here as   *)
(* exact decimal fixed-point values: a magnitude, kept as a little-endian  *)
(* sequence of decimal digits scaled by 10^Scale, and a sign.  A JavaScript*)
(* number is carried as the decimal its Number::toString prints, which is  *)
(* the text `new Decimal(number)` parses.                                  *)
(***************************************************************************)
EXTENDS Integers, Sequences, FiniteSets, TLC

VARIABLES pc, tool, args, result, sent, replies, response

vars == <<pc, tool, args, result, sent, replies, response>>

(***************************************************************************)
(* Arbitrary-size naturals: little-endian decimal digits, <<>> is 0, no    *)
(* most-significant zero digit.                                            *)
(***************************************************************************)
Min2(a, b) == IF a <= b THEN a ELSE b

Max2(a, b) == IF a >= b THEN a ELSE b

Zeros(k) == [i \in 1..k |-> 0]

\* index of the most-significant nonzero digit among a[lo..hi], 0 if none
RECURSIVE NTop(_, _, _)
NTop(a, lo, hi) ==
  IF lo > hi THEN 0
  ELSE IF lo = hi THEN (IF a[lo] # 0 THEN lo ELSE 0)
  ELSE LET mid == (lo + hi) \div 2
           up  == NTop(a, mid + 1, hi)
       IN  IF up > 0 THEN up ELSE NTop(a, lo, mid)

NStrip(a) == SubSeq(a, 1, NTop(a, 1, Len(a)))

\* index of the least-significant nonzero digit among a[lo..hi], 0 if none
RECURSIVE NBottom(_, _, _)
NBottom(a, lo, hi) ==
  IF lo > hi THEN 0
  ELSE IF lo = hi THEN (IF a[lo] # 0 THEN lo ELSE 0)
  ELSE LET mid  == (lo + hi) \div 2
           down == NBottom(a, lo, mid)
       IN  IF down > 0 THEN down ELSE NBottom(a, mid + 1, hi)

\* number of trailing (least-significant) zero digits of a nonzero a
NTrailingZeros(a) == IF a = <<>> THEN 0 ELSE NBottom(a, 1, Len(a)) - 1

RECURSIVE NFromInt(_)
NFromInt(n) == IF n = 0 THEN <<>> ELSE <<n % 10>> \o NFromInt(n \div 10)

RECURSIVE NToInt(_)
NToInt(a) == IF a = <<>> THEN 0 ELSE a[1] + 10 * NToInt(Tail(a))

\* a * 10^k
NShl(a, k) == IF a = <<>> THEN <<>> ELSE Zeros(k) \o a

\* a div 10^k
NShr(a, k) == IF Len(a) <= k THEN <<>> ELSE SubSeq(a, k + 1, Len(a))

\* a mod 10^k
NLow(a, k) == NStrip(SubSeq(a, 1, Min2(k, Len(a))))

\* a padded with most-significant zeros to n digits
NPad(a, n) == a \o Zeros(n - Len(a))

\* digits and carry-out of a + b + c over equally long a, b.  The passes below
\* halve their operand and look at the incoming carry first, which keeps the
\* evaluation shallow; carries are never negative.
RECURSIVE NAddC(_, _, _)
NAddC(a, b, c) ==
  IF c < 0 \/ Len(a) = 0 THEN [d |-> <<>>, c |-> c]
  ELSE IF Len(a) = 1
       THEN [d |-> <<(a[1] + b[1] + c) % 10>>, c |-> (a[1] + b[1] + c) \div 10]
  ELSE LET h  == Len(a) \div 2
           lo == NAddC(SubSeq(a, 1, h), SubSeq(b, 1, h), c)
           hi == NAddC(SubSeq(a, h + 1, Len(a)), SubSeq(b, h + 1, Len(b)), lo.c)
       IN  [d |-> lo.d \o hi.d, c |-> hi.c]

\* the digits of a pass followed by the digits of its carry-out
NWithCarry(r) == r.d \o NFromInt(r.c)

NAdd(a, b) ==
  NWithCarry(NAddC(NPad(a, Max2(Len(a), Len(b))), NPad(b, Max2(Len(a), Len(b))), 0))

\* digits and borrow-out of a - b - c over equally long a, b
RECURSIVE NSubB(_, _, _)
NSubB(a, b, c) ==
  IF c < 0 \/ Len(a) = 0 THEN [d |-> <<>>, c |-> c]
  ELSE IF Len(a) = 1
       THEN [d |-> <<(a[1] - b[1] - c + 10) % 10>>,
             c |-> IF a[1] - b[1] - c < 0 THEN 1 ELSE 0]
  ELSE LET h  == Len(a) \div 2
           lo == NSubB(SubSeq(a, 1, h), SubSeq(b, 1, h), c)
           hi == NSubB(SubSeq(a, h + 1, Len(a)), SubSeq(b, h + 1, Len(b)), lo.c)
       IN  [d |-> lo.d \o hi.d, c |-> hi.c]

\* a - b for a >= b
NSub(a, b) == NStrip(NSubB(a, NPad(b, Len(a)), 0).d)

\* -1, 0, 1 as a < b, a = b, a > b, over equally long a, b
RECURSIVE NCmpEq(_, _)
NCmpEq(a, b) ==
  IF a = b THEN 0
  ELSE IF Len(a) = 1 THEN (IF a[1] < b[1] THEN -1 ELSE 1)
  ELSE LET h == Len(a) \div 2
       IN  IF SubSeq(a, h + 1, Len(a)) = SubSeq(b, h + 1, Len(b))
           THEN NCmpEq(SubSeq(a, 1, h), SubSeq(b, 1, h))
           ELSE NCmpEq(SubSeq(a, h + 1, Len(a)), SubSeq(b, h + 1, Len(b)))

NCmp(a, b) ==
  IF Len(a) < Len(b) THEN -1
  ELSE IF Len(a) > Len(b) THEN 1
  ELSE NCmpEq(a, b)

\* digits and carry-out of a * k + c for a machine-size k
RECURSIVE NMulC(_, _, _)
NMulC(a, k, c) ==
  IF c < 0 \/ Len(a) = 0 THEN [d |-> <<>>, c |-> c]
  ELSE IF Len(a) = 1 THEN [d |-> <<(a[1] * k + c) % 10>>, c |-> (a[1] * k + c) \div 10]
  ELSE LET h  == Len(a) \div 2
           lo == NMulC(SubSeq(a, 1, h), k, c)
           hi == NMulC(SubSeq(a, h + 1, Len(a)), k, lo.c)
       IN  [d |-> lo.d \o hi.d, c |-> hi.c]

NMulSmall(a, k) == IF k = 0 THEN <<>> ELSE NWithCarry(NMulC(a, k, 0))

RECURSIVE NMul(_, _)
NMul(a, b) ==
  IF a = <<>> \/ b = <<>> THEN <<>>
  ELSE NAdd(NMulSmall(a, b[1]), NShl(NMul(a, Tail(b)), 1))

\* quotient digits and remainder of (r * 10^Len(a) + a) by a machine-size k
RECURSIVE NDivR(_, _, _)
NDivR(a, k, r) ==
  IF r < 0 \/ Len(a) = 0 THEN [q |-> <<>>, r |-> r]
  ELSE IF Len(a) = 1 THEN [q |-> <<(10 * r + a[1]) \div k>>, r |-> (10 * r + a[1]) % k]
  ELSE LET h  == Len(a) \div 2
           hi == NDivR(SubSeq(a, h + 1, Len(a)), k, r)
           lo == NDivR(SubSeq(a, 1, h), k, hi.r)
       IN  [q |-> lo.q \o hi.q, r |-> lo.r]

NDivSmall(a, k) == NStrip(NDivR(a, k, 0).q)

NModSmall(a, k) == NDivR(a, k, 0).r

\* drop the k low digits, rounding half away from zero
NDropRound(a, k) ==
  IF k = 0 THEN a
  ELSE IF Len(a) < k THEN <<>>
  ELSE IF a[k] >= 5 THEN NAdd(NShr(a, k), <<1>>) ELSE NShr(a, k)

\* a rounded half-up to p significant digits
NRoundSig(a, p) ==
  IF Len(a) <= p THEN a ELSE NShl(NDropRound(a, Len(a) - p), Len(a) - p)

(***************************************************************************)
(* decimal.js values: sign and magnitude scaled by 10^Scale.  Every        *)
(* arithmetic result is rounded to Precision significant digits, half away *)
(* from zero (decimal.js defaults: precision 20, rounding ROUND_HALF_UP).  *)
(***************************************************************************)
Scale == 28

Precision == 20

\* guard digits of a quotient before it is rounded to Precision digits
DivExtra == Precision + 4

DMk(neg, mag) == [neg |-> (neg /\ mag # <<>>), mag |-> mag]

DZero == DMk(FALSE, <<>>)

\* the decimal n * 10^-e, n a machine-size integer
DFrom(n, e) == DMk(n < 0, NShl(NFromInt(IF n < 0 THEN -n ELSE n), Scale - e))

DInt(n) == DFrom(n, 0)

DNeg(x) == DMk(~x.neg, x.mag)

DRound(x) == DMk(x.neg, NRoundSig(x.mag, Precision))

DCmp(x, y) ==
  IF x.neg /\ ~y.neg THEN -1
  ELSE IF ~x.neg /\ y.neg THEN 1
  ELSE IF x.neg THEN NCmp(y.mag, x.mag)
  ELSE NCmp(x.mag, y.mag)

DGt(x, y) == DCmp(x, y) > 0

DGte(x, y) == DCmp(x, y) >= 0

DLt(x, y) == DCmp(x, y) < 0

DLte(x, y) == DCmp(x, y) <= 0

DMin(x, y) == IF DLte(x, y) THEN x ELSE y

DPlus(x, y) ==
  IF x.neg = y.neg THEN DRound(DMk(x.neg, NAdd(x.mag, y.mag)))
  ELSE IF NCmp(x.mag, y.mag) >= 0 THEN DRound(DMk(x.neg, NSub(x.mag, y.mag)))
  ELSE DRound(DMk(y.neg, NSub(y.mag, x.mag)))

DMinus(x, y) == DPlus(x, DNeg(y))

\* p * 10^(z - Scale)
NRescale(p, z) == IF z >= Scale THEN NShl(p, z - Scale) ELSE NDropRound(p, Scale - z)

\* a * (b / 10^Scale), b with z trailing zeros
NTimes(a, b, z) == NRescale(NRoundSig(NMul(a, NShr(b, z)), Precision), z)

DTimes(x, y) ==
  IF x.mag = <<>> \/ y.mag = <<>> THEN DZero
  ELSE DMk(x.neg # y.neg, NTimes(x.mag, y.mag, NTrailingZeros(y.mag)))

\* x / k for a machine-size positive integer k
DDivInt(x, k) ==
  DMk(x.neg,
      NDropRound(NRoundSig(NDivSmall(NShl(x.mag, DivExtra), k), Precision), DivExtra))

\* number of significant digits
NSig(a) == Len(a) - NTrailingZeros(a)

\* number of digits after the decimal point
DecimalPlaces(x) == Max2(0, Scale - NTrailingZeros(x.mag)) * (IF x.mag = <<>> THEN 0 ELSE 1)

(***************************************************************************)
(* Decimal.toNumber(): the IEEE-754 binary64 nearest to the decimal (ties  *)
(* to even), carried as the shortest decimal that reads back as that       *)
(* double (ECMAScript Number::toString).                                   *)
(***************************************************************************)
\* fractional digits of the exact expansion of a double, as worked with below
WorkScale == Scale + 52

RECURSIVE Pow2(_)
Pow2(n) == IF n = 0 THEN 1 ELSE 2 * Pow2(n - 1)

RECURSIVE NMulPow2(_, _)
NMulPow2(a, s) ==
  IF s = 0 THEN a
  ELSE LET t == Min2(s, 24) IN NMulPow2(NMulSmall(a, Pow2(t)), s - t)

\* a / 2^s, a a multiple of 2^s
RECURSIVE NDivPow2(_, _)
NDivPow2(a, s) ==
  IF s = 0 THEN a
  ELSE LET t == Min2(s, 24) IN NDivPow2(NDivSmall(a, Pow2(t)), s - t)

\* 2^52 and 2^53 scaled by 10^Scale: the bounds of a 53-bit significand
Sig52 == NShl(NMulPow2(<<1>>, 52), Scale)

Sig53 == NShl(NMulPow2(<<1>>, 53), Scale)

\* the s and t = a * 2^s with 2^52 * 10^Scale <= t < 2^53 * 10^Scale
RECURSIVE BinNormalize(_, _, _)
BinNormalize(t, s, step) ==
  IF NCmp(NMulSmall(t, Pow2(step)), Sig53) < 0
  THEN BinNormalize(NMulSmall(t, Pow2(step)), s + step, step)
  ELSE IF step = 1 THEN [t |-> t, s |-> s]
  ELSE BinNormalize(t, s, step \div 4)

\* q or q + 1 as the remainder compares (c) with one half: ties to even
BinTiesEven(q, c) == IF c > 0 \/ (c = 0 /\ q[1] % 2 = 1) THEN NAdd(q, <<1>>) ELSE q

\* a significand that rounded up to 2^53 is 2^52 with the next exponent
BinCarry(m, s) ==
  IF NCmp(m, NShr(Sig53, Scale)) = 0
  THEN [m |-> NShr(Sig52, Scale), s |-> s - 1]
  ELSE [m |-> m, s |-> s]

BinRoundAt(n) ==
  BinCarry(BinTiesEven(NShr(n.t, Scale),
                       NCmp(NLow(n.t, Scale), NShl(<<5>>, Scale - 1))), n.s)

\* the significand m and exponent s of the double m * 2^-s nearest to a / 10^Scale
BinRound(a) == BinRoundAt(BinNormalize(a, 0, 16))

\* whether a candidate at distance dist lies in a rounding interval of half-width h
InInterval(dist, h, incl) == NCmp(dist, h) < 0 \/ (incl /\ NCmp(dist, h) = 0)

\* the shortest decimal of k or more digits that rounds to the double v
\* (scaled by 10^WorkScale) whose rounding interval is [v - lowH, v + upH]
RECURSIVE ShortestFrom(_, _, _, _, _)

\* the choice between lo = v - dLo and hi = v + dHi, the multiples of 10^d
\* around v, given which of them lie in the interval
ShortestPick(v, lowH, upH, incl, k, d, dLo, dHi, okLo, okHi) ==
  IF okLo /\ okHi
  THEN (IF NCmp(dLo, dHi) < 0 \/ (NCmp(dLo, dHi) = 0 /\ v[d + 1] % 2 = 0)
        THEN NSub(v, dLo) ELSE NAdd(v, dHi))
  ELSE IF okLo THEN NSub(v, dLo)
  ELSE IF okHi THEN NAdd(v, dHi)
  ELSE ShortestFrom(v, lowH, upH, incl, k + 1)

ShortestAround(v, lowH, upH, incl, k, d, dLo, dHi) ==
  ShortestPick(v, lowH, upH, incl, k, d, dLo, dHi,
               InInterval(dLo, lowH, incl), InInterval(dHi, upH, incl))

ShortestAt(v, lowH, upH, incl, k, d, dLo) ==
  IF dLo = <<>> THEN v
  ELSE ShortestAround(v, lowH, upH, incl, k, d, dLo, NSub(NShl(<<1>>, d), dLo))

ShortestFrom(v, lowH, upH, incl, k) ==
  IF Len(v) - k <= 0 THEN v
  ELSE ShortestAt(v, lowH, upH, incl, k, Len(v) - k, NLow(v, Len(v) - k))

\* the double m * 2^-s printed: its interval reaches half a unit in the last
\* place up (upH) and, at a power of two, a quarter down
NumberToString(b, upH) ==
  ShortestFrom(NDivPow2(NShl(b.m, WorkScale), b.s),
               IF NCmp(b.m, NShr(Sig52, Scale)) = 0 THEN NDivPow2(upH, 1) ELSE upH,
               upH, b.m[1] % 2 = 0, 1)

NumberOf(b) == NShr(NumberToString(b, NDivPow2(NShl(<<1>>, WorkScale), b.s + 1)),
                    WorkScale - Scale)

NToNumber(a) == IF a = <<>> THEN a ELSE NumberOf(BinRound(a))

\* a decimal of at most 15 significant digits survives the trip through a double
ToNumber(x) == IF NSig(x.mag) <= 15 THEN x ELSE DMk(x.neg, NToNumber(x.mag))

(***************************************************************************)
(* TaxCalculator (tax.ts).  A result is a record; a failure is the record  *)
(* {error: true, message}.  Only the numeric fields of a result are        *)
(* carried: the percentage and label strings (effective_rate, tax_bracket, *)
(* payment dates, eligibility) are computed from them and change nothing.  *)
(***************************************************************************)
ErrorResult(msg) == [error |-> TRUE, message |-> msg]

IsError(r) == "error" \in DOMAIN r

\* amount in BRL written with two decimals: Cents(211201) is 2112.01
Cents(n) == DFrom(n, 2)

\* a rate written with three decimals: Rate(75) is 0.075
Rate(n) == DFrom(n, 3)

DependentDeduction == Cents(18959)

\* the brackets with 370.41 as the deduction of the third
IRPFBracketsLargerDeduction ==
  << [min |-> Cents(0),      max |-> Cents(211200), top |-> FALSE, rate |-> Rate(0),   deduction |-> Cents(0)],
     [min |-> Cents(211201), max |-> Cents(282665), top |-> FALSE, rate |-> Rate(75),  deduction |-> Cents(15840)],
     [min |-> Cents(282666), max |-> Cents(375105), top |-> FALSE, rate |-> Rate(150), deduction |-> Cents(37041)],
     [min |-> Cents(375106), max |-> Cents(466468), top |-> FALSE, rate |-> Rate(225), deduction |-> Cents(65173)],
     [min |-> Cents(466469), max |-> Cents(0),      top |-> TRUE,  rate |-> Rate(275), deduction |-> Cents(88496)] >>

\* 2024 IRPF brackets; top is TRUE for the bracket whose max is Infinity
IRPFBrackets ==
  << [min |-> Cents(0),      max |-> Cents(211200), top |-> FALSE, rate |-> Rate(0),   deduction |-> Cents(0)],
     [min |-> Cents(211201), max |-> Cents(282665), top |-> FALSE, rate |-> Rate(75),  deduction |-> Cents(15840)],
     [min |-> Cents(282666), max |-> Cents(375105), top |-> FALSE, rate |-> Rate(150), deduction |-> Cents(37040)],
     [min |-> Cents(375106), max |-> Cents(466468), top |-> FALSE, rate |-> Rate(225), deduction |-> Cents(65173)],
     [min |-> Cents(466469), max |-> Cents(0),      top |-> TRUE,  rate |-> Rate(275), deduction |-> Cents(88496)] >>

\* brackets.find(b => taxableIncome.gte(b.min) && taxableIncome.lte(b.max)):
\* the index of the first bracket that holds t, 0 when none does
InBracket(t, b) == DGte(t, b.min) /\ (b.top \/ DLte(t, b.max))

RECURSIVE FindBracket(_, _)
FindBracket(t, i) ==
  IF i > Len(IRPFBrackets) THEN 0
  ELSE IF InBracket(t, IRPFBrackets[i]) THEN i
  ELSE FindBracket(t, i + 1)

\* BracketTax without the bracket's pre-computed deduction
BracketTaxNoDeduction(t, b) == DTimes(t, b.rate)

BracketTax(t, b) ==
  IF DGt(b.rate, DZero) THEN DMinus(DTimes(t, b.rate), b.deduction) ELSE DZero

\* the object calculateIncomeTax returns
IRPFResult(income, dependents, dependentDeduction, taxableIncome, i, tax) ==
  [ gross_income        |-> ToNumber(income),
    dependents          |-> dependents,
    dependent_deduction |-> ToNumber(dependentDeduction),
    taxable_income      |-> ToNumber(taxableIncome),
    income_tax          |-> ToNumber(tax),
    net_income          |-> ToNumber(DMinus(income, tax)),
    annual_tax          |-> ToNumber(DTimes(tax, DInt(12))),
    annual_net          |-> ToNumber(DTimes(DMinus(income, tax), DInt(12))),
    marginal_rate       |-> IRPFBrackets[i].rate,
    bracket             |-> i ]

\* calculateIncomeTax from the bracket lookup on
IncomeTaxOn(income, dependents, dependentDeduction, taxableIncome) ==
  LET i == FindBracket(taxableIncome, 1)
  IN  IF i = 0 THEN ErrorResult("Could not determine tax bracket")
      ELSE IRPFResult(income, dependents, dependentDeduction, taxableIncome, i,
                      BracketTax(taxableIncome, IRPFBrackets[i]))

calculateIncomeTax(monthlyIncome, dependents) ==
  LET dependentDeduction == DTimes(DependentDeduction, DInt(dependents))
  IN  IncomeTaxOn(monthlyIncome, dependents, dependentDeduction,
                  DMinus(monthlyIncome, dependentDeduction))

\* 2024 INSS brackets for employees
INSSBrackets ==
  << [min |-> Cents(0),      max |-> Cents(141200), rate |-> Rate(75)],
     [min |-> Cents(141201), max |-> Cents(266668), rate |-> Rate(90)],
     [min |-> Cents(266669), max |-> Cents(400003), rate |-> Rate(120)],
     [min |-> Cents(400004), max |-> Cents(778602), rate |-> Rate(140)] >>

SalaryCeiling == Cents(778602)

\* one turn of `for (const bracket of brackets)`; acc is <<contribution, previousMax>>
INSSStep(salary, bracket, acc) ==
  IF DGt(salary, bracket.min)
  THEN << DPlus(acc[1], DTimes(DMinus(DMin(salary, bracket.max), acc[2]), bracket.rate)),
          bracket.max >>
  ELSE acc

RECURSIVE INSSLoop(_, _, _)
INSSLoop(salary, i, acc) ==
  IF i > Len(INSSBrackets) THEN acc
  ELSE LET next == INSSStep(salary, INSSBrackets[i], acc)
       IN  IF DLte(salary, INSSBrackets[i].max) THEN next
           ELSE INSSLoop(salary, i + 1, next)

EmployeeContribution(salary) == INSSLoop(salary, 1, <<DZero, DZero>>)[1]

SelfEmployedContribution(salary) ==
  DMin(DTimes(salary, Rate(200)), DTimes(SalaryCeiling, Rate(200)))

\* the object calculateINSS returns for an employee
INSSResult(salary, contribution) ==
  [ gross_salary          |-> ToNumber(salary),
    type                  |-> "Employee",
    inss_contribution     |-> ToNumber(contribution),
    net_salary            |-> ToNumber(DMinus(salary, contribution)),
    employer_contribution |-> ToNumber(DTimes(salary, Rate(200))),
    total_cost            |-> ToNumber(DPlus(salary, DTimes(salary, Rate(200)))),
    annual_contribution   |-> ToNumber(DTimes(contribution, DInt(12))),
    annual_net            |-> ToNumber(DTimes(DMinus(salary, contribution), DInt(12))),
    contribution_rate     |-> Rate(140),
    salary_ceiling        |-> SalaryCeiling ]

\* the object calculateINSS returns for any other type
SelfEmployedResult(salary, finalContribution) ==
  [ gross_salary        |-> ToNumber(salary),
    type                |-> "Self-employed",
    inss_contribution   |-> ToNumber(finalContribution),
    net_salary          |-> ToNumber(DMinus(salary, finalContribution)),
    max_contribution    |-> ToNumber(DTimes(SalaryCeiling, Rate(200))),
    annual_contribution |-> ToNumber(DTimes(finalContribution, DInt(12))),
    contribution_rate   |-> Rate(200),
    salary_ceiling      |-> SalaryCeiling ]

calculateINSS(salary, type) ==
  IF type = "employee"
  THEN INSSResult(salary, EmployeeContribution(salary))
  ELSE SelfEmployedResult(salary, SelfEmployedContribution(salary))

\* the object calculateFGTS returns
FGTSResult(salary, fgts) ==
  [ gross_salary      |-> ToNumber(salary),
    fgts_deposit      |-> ToNumber(fgts),
    fgts_rate         |-> Rate(80),
    monthly_deposit   |-> ToNumber(fgts),
    annual_deposit    |-> ToNumber(DTimes(fgts, DInt(12))),
    salary            |-> ToNumber(salary),
    employer_cost     |-> ToNumber(fgts),
    employee_receives |-> DZero,
    fine_on_dismissal |-> ToNumber(DTimes(DTimes(fgts, DInt(12)), Rate(400))) ]

calculateFGTS(salary) == FGTSResult(salary, DTimes(salary, Rate(80)))

\* ('inss_contribution' in r) ? r.inss_contribution : 0
InssAmountOf(r) == IF "inss_contribution" \in DOMAIN r THEN r.inss_contribution ELSE DZero

\* an income tax of one real in place of a failed calculation
IrpfAmountOfOneReal(r) == IF "income_tax" \in DOMAIN r THEN r.income_tax ELSE DInt(1)

\* ('income_tax' in r) ? r.income_tax : 0
IrpfAmountOf(r) == IF "income_tax" \in DOMAIN r THEN r.income_tax ELSE DZero

\* the calculateINSS / calculateIncomeTax calls of the composite operations
\* (type and dependents take their defaults)
InssDeductionOn(gross) == calculateINSS(ToNumber(gross), "employee")

IrpfDeductionOn(gross) == calculateIncomeTax(ToNumber(gross), 0)

\* the object calculateVacation returns
VacationResult(salary, days, sellDays, vacationPay, constitutionalThird, soldDaysPayment, totalGross, inssAmount, irpfAmount, totalDeductions, netPayment) ==
  [ gross_salary          |-> ToNumber(salary),
    vacation_days         |-> days,
    sold_days             |-> sellDays,
    vacation_pay          |-> ToNumber(vacationPay),
    constitutional_third  |-> ToNumber(constitutionalThird),
    sold_vacation_pay     |-> ToNumber(soldDaysPayment),
    inss_on_vacation      |-> inssAmount,
    irpf_on_vacation      |-> irpfAmount,
    total_vacation_amount |-> ToNumber(totalGross),
    net_vacation_amount   |-> ToNumber(netPayment),
    deductions            |-> [ inss       |-> inssAmount,
                                income_tax |-> irpfAmount,
                                total      |-> ToNumber(totalDeductions) ],
    net_payment           |-> ToNumber(netPayment) ]

\* calculateVacation from the deductions on
VacationNet(salary, days, sellDays, vacationPay, constitutionalThird, soldDaysPayment, totalGross, inssAmount, irpfAmount) ==
  LET totalDeductions == DPlus(inssAmount, irpfAmount)
  IN  VacationResult(salary, days, sellDays, vacationPay, constitutionalThird,
                     soldDaysPayment, totalGross, inssAmount, irpfAmount,
                     totalDeductions, DMinus(totalGross, totalDeductions))

\* calculateVacation from the total gross payment on
VacationDeductions(salary, days, sellDays, vacationPay, constitutionalThird, soldDaysPayment, totalGross) ==
  VacationNet(salary, days, sellDays, vacationPay, constitutionalThird, soldDaysPayment,
              totalGross, InssAmountOf(InssDeductionOn(totalGross)),
              IrpfAmountOf(IrpfDeductionOn(totalGross)))

\* calculateVacation from the base pay and the sold days' pay on
VacationGross(salary, days, sellDays, vacationPay, soldDaysPayment) ==
  LET constitutionalThird == DDivInt(vacationPay, 3)
      soldDaysThird       == DDivInt(soldDaysPayment, 3)
  IN  VacationDeductions(salary, days, sellDays, vacationPay, constitutionalThird,
                         soldDaysPayment,
                         DPlus(DPlus(DPlus(vacationPay, constitutionalThird),
                                     soldDaysPayment), soldDaysThird))

calculateVacation(salary, days, sellDays) ==
  IF days > 30 \/ days < 0 THEN ErrorResult("Vacation days must be between 0 and 30")
  ELSE IF sellDays > 10 \/ sellDays < 0 THEN ErrorResult("Can only sell up to 10 vacation days")
  ELSE LET dailyRate == DDivInt(salary, 30)
       IN  VacationGross(salary, days, sellDays, DTimes(dailyRate, DInt(days)),
                         DTimes(dailyRate, DInt(sellDays)))

\* the object calculate13thSalary returns
ThirteenthSalaryResult(salary, monthsWorked, proportional13th, firstInstallment, secondInstallmentGross, inssAmount, irpfAmount, totalDeductions, secondInstallmentNet, totalNet) ==
  [ gross_salary        |-> ToNumber(salary),
    months_worked       |-> monthsWorked,
    proportional_months |-> monthsWorked,
    gross_13th          |-> ToNumber(proportional13th),
    inss_13th           |-> inssAmount,
    irpf_13th           |-> irpfAmount,
    net_13th            |-> ToNumber(totalNet),
    salary              |-> ToNumber(salary),
    first_installment   |-> [ amount     |-> ToNumber(firstInstallment),
                              deductions |-> DZero,
                              net        |-> ToNumber(firstInstallment) ],
    second_installment  |-> [ gross      |-> ToNumber(secondInstallmentGross),
                              deductions |-> [ inss       |-> inssAmount,
                                               income_tax |-> irpfAmount,
                                               total      |-> ToNumber(totalDeductions) ],
                              net        |-> ToNumber(secondInstallmentNet) ],
    total_gross         |-> ToNumber(proportional13th),
    total_deductions    |-> ToNumber(totalDeductions),
    total_net           |-> ToNumber(totalNet),
    eligible            |-> monthsWorked >= 1 ]

\* calculate13thSalary from the second installment's net on
ThirteenthNet(salary, monthsWorked, proportional13th, firstInstallment, secondInstallmentGross, inssAmount, irpfAmount, totalDeductions, secondInstallmentNet) ==
  ThirteenthSalaryResult(salary, monthsWorked, proportional13th, firstInstallment,
                         secondInstallmentGross, inssAmount, irpfAmount, totalDeductions,
                         secondInstallmentNet, DPlus(firstInstallment, secondInstallmentNet))

\* calculate13thSalary from the deductions on
ThirteenthDeductions(salary, monthsWorked, proportional13th, secondInstallmentGross, inssAmount, irpfAmount, totalDeductions) ==
  ThirteenthNet(salary, monthsWorked, proportional13th, DDivInt(proportional13th, 2),
                secondInstallmentGross, inssAmount, irpfAmount, totalDeductions,
                DMinus(secondInstallmentGross, totalDeductions))

\* ThirteenthOn with a second installment of a quarter of the amount
ThirteenthOnQuarter(salary, monthsWorked, proportional13th, inssAmount, irpfAmount) ==
  ThirteenthDeductions(salary, monthsWorked, proportional13th,
                       DDivInt(proportional13th, 4), inssAmount, irpfAmount,
                       DPlus(inssAmount, irpfAmount))

\* calculate13thSalary from the proportional 13th salary on
ThirteenthOn(salary, monthsWorked, proportional13th, inssAmount, irpfAmount) ==
  ThirteenthDeductions(salary, monthsWorked, proportional13th,
                       DDivInt(proportional13th, 2), inssAmount, irpfAmount,
                       DPlus(inssAmount, irpfAmount))

Proportional13th(salary, monthsWorked, proportional13th) ==
  ThirteenthOn(salary, monthsWorked, proportional13th,
               InssAmountOf(InssDeductionOn(proportional13th)),
               IrpfAmountOf(IrpfDeductionOn(proportional13th)))

\* calculate13thSalary without the lower bound on the months worked
calculate13thSalaryNoLowerBound(salary, monthsWorked) ==
  IF monthsWorked > 12
  THEN ErrorResult("Months worked must be between 0 and 12")
  ELSE Proportional13th(salary, monthsWorked,
                        DDivInt(DTimes(salary, DInt(monthsWorked)), 12))

calculate13thSalary(salary, monthsWorked) ==
  IF monthsWorked > 12 \/ monthsWorked < 0
  THEN ErrorResult("Months worked must be between 0 and 12")
  ELSE Proportional13th(salary, monthsWorked,
                        DDivInt(DTimes(salary, DInt(monthsWorked)), 12))

(***************************************************************************)
(* JavaScript strings and numbers of FinanceService (finance.ts).  A string *)
(* is the sequence of its UTF-16 code units, each a one-character string.  *)
(***************************************************************************)
DigitChars == <<"0", "1", "2", "3", "4", "5", "6", "7", "8", "9">>

IsDigitChar(c) == \E i \in 1..Len(DigitChars) : DigitChars[i] = c

\* parseInt of a one-character string: its digit, or NaN (nan) for any other
DigitValue(c) == CHOOSE n \in 0..9 : DigitChars[n + 1] = c

parseInt(c) == IF IsDigitChar(c) THEN [nan |-> FALSE, val |-> DigitValue(c)]
               ELSE [nan |-> TRUE, val |-> 0]

\* Number.prototype.toString() of a non-negative integer given by its digits
NToString(n) ==
  IF n = <<>> THEN <<"0">> ELSE [i \in 1..Len(n) |-> DigitChars[n[Len(n) + 1 - i] + 1]]

\* Number.prototype.toString() of a machine-size integer
IntToString(n) ==
  IF n < 0 THEN <<"-">> \o NToString(NFromInt(-n)) ELSE NToString(NFromInt(n))

\* String.prototype.padStart(n, c)
padStart(str, n, c) == IF Len(str) >= n THEN str ELSE [i \in 1..(n - Len(str)) |-> c] \o str

\* String.prototype.substring(from, to) and substring(from), 0 <= from <= to
substring(str, from, to) == SubSeq(str, from + 1, Min2(to, Len(str)))

substringFrom(str, from) == SubSeq(str, from + 1, Len(str))

\* the least k with n / 2^k < 2^53
RECURSIVE BinExcess(_, _)
BinExcess(n, k) ==
  IF NCmp(NDivPow2(n, k), NShr(Sig53, Scale)) < 0 THEN k ELSE BinExcess(n, k + 1)

\* n * 2^-s rounded to a 53-bit significand, k bits dropped, ties to even
BinRoundDrop(n, s, k, q) ==
  BinCarry(BinTiesEven(q, NCmp(NMulSmall(NSub(n, NMulPow2(q, k)), 2), NMulPow2(<<1>>, k))),
           s - k)

\* the double nearest to the integer n times 2^-s, n >= 2^52
BinRoundInt(n, s) ==
  BinRoundDrop(n, s, BinExcess(n, 0), NDivPow2(n, BinExcess(n, 0)))

\* Math.round of the double m * 2^-s: floor(x + 1/2)
MathRound(b) ==
  IF b.s <= 0 THEN NMulPow2(b.m, -b.s)
  ELSE NDivPow2(NAdd(b.m, NMulPow2(<<1>>, b.s - 1)), b.s)

\* Math.round(amount * 100) for a number amount > 0: the product is the double
\* nearest to the exact product of the double amount by 100
RoundedCents(amount) == MathRound(BinRoundInt(NMulSmall(BinRound(amount.mag).m, 100),
                                              BinRound(amount.mag).s))

(***************************************************************************)
(* FinanceService.generateBoleto.  A due date string is carried parsed: an  *)
(* unparseable string (valid = FALSE) or a UTC calendar date and second of *)
(* the day, as `new Date` reads an ISO date or date-time.                  *)
(***************************************************************************)
\* days from 1970-01-01 to a calendar date (proleptic Gregorian)
DaysFromCivil(y, m, d) ==
  LET yy  == IF m <= 2 THEN y - 1 ELSE y
      era == yy \div 400
      yoe == yy - era * 400
      doy == (153 * (IF m > 2 THEN m - 3 ELSE m + 9) + 2) \div 5 + d - 1
      doe == yoe * 365 + yoe \div 4 - yoe \div 100 + doy
  IN  era * 146097 + doe - 719468

\* Date.prototype.getTime(), in seconds
getTime(date) == DaysFromCivil(date.year, date.month, date.day) * 86400 + date.second

InvalidDate == [valid |-> FALSE, year |-> 0, month |-> 0, day |-> 0, second |-> 0]

DateOf(y, m, d, sec) == [valid |-> TRUE, year |-> y, month |-> m, day |-> d, second |-> sec]

\* new Date('1997-10-07')
BaseDate == DateOf(1997, 10, 7, 0)

\* Math.floor((dueDateObj.getTime() - baseDate.getTime()) / (1000 * 60 * 60 * 24))
DaysDiff(dueDate) == (getTime(dueDate) - getTime(BaseDate)) \div 86400

BoletoSequence == <<2, 3, 4, 5, 6, 7, 8, 9>>

\* the loop of calculateBoletoCheckDigit from index i (1-based) down to the
\* first character; a NaN term makes the sum NaN
RECURSIVE BoletoSum(_, _, _, _)
BoletoSum(barcode, i, multiplier, sum) ==
  IF sum.val < 0 \/ i = 0 THEN sum
  ELSE BoletoSum(barcode, i - 1, (multiplier + 1) % Len(BoletoSequence),
                 [nan |-> sum.nan \/ parseInt(barcode[i]).nan,
                  val |-> sum.val + parseInt(barcode[i]).val * BoletoSequence[multiplier + 1]])

\* the check digit of a weighted sum: 11 - sum % 11, with 0, 10 and 11 sent to 1
BoletoDigitOf(sum) ==
  IF sum.nan THEN <<"N", "a", "N">>
  ELSE IF 11 - (sum.val % 11) \in {0, 10, 11} THEN <<"1">>
  ELSE IntToString(11 - (sum.val % 11))

calculateBoletoCheckDigit(barcode) ==
  BoletoDigitOf(BoletoSum(barcode, Len(barcode), 0, [nan |-> FALSE, val |-> 0]))

formatBoletoTypeableLine(barcode) ==
  substring(barcode, 0, 10) \o <<".">> \o substring(barcode, 10, 21) \o <<".">>
    \o substring(barcode, 21, 32) \o <<".">> \o substring(barcode, 32, 33) \o <<".">>
    \o substringFrom(barcode, 33)

getBankName(code) ==
  CASE code = <<"0", "0", "1">> -> "Banco do Brasil"
    [] code = <<"0", "3", "3">> -> "Santander"
    [] code = <<"1", "0", "4">> -> "Caixa Econômica Federal"
    [] code = <<"2", "3", "7">> -> "Bradesco"
    [] code = <<"3", "4", "1">> -> "Itaú"
    [] OTHER -> "Unknown Bank"

\* the barcode before its check digit: bank, currency 9, due date factor,
\* amount, campo livre
\* an argument the request does not carry
Undefined == [undefined |-> TRUE]

IsNumber(x) == "mag" \in DOMAIN x

\* amount <= 0 and amount > 0 on a number or undefined: both are false of undefined
NumberLteZero(x) == IsNumber(x) /\ DLte(x, DZero)

NumberGtZero(x) == IsNumber(x) /\ DGt(x, DZero)

\* Math.round(amount * 100).toString().padStart(10, '0'); of undefined the
\* product is NaN
BoletoAmountStr(amount) ==
  IF IsNumber(amount) THEN padStart(NToString(RoundedCents(amount)), 10, "0")
  ELSE padStart(<<"N", "a", "N">>, 10, "0")

BoletoBarcode(bankCode, amount, dueDate, documentNumber) ==
  bankCode \o <<"9">>
    \o padStart(IntToString(DaysDiff(dueDate)), 4, "0")
    \o BoletoAmountStr(amount)
    \o substring(padStart(documentNumber, 25, "0"), 0, 25)

\* the barcode with its check digit inserted at position 4
FinalBarcode(barcode) ==
  substring(barcode, 0, 4) \o calculateBoletoCheckDigit(barcode) \o substringFrom(barcode, 4)

\* the object generateBoleto returns
BoletoResult(bankCode, amount, dueDate, documentNumber, finalBarcode) ==
  [ barcode         |-> finalBarcode,
    typeable_line   |-> formatBoletoTypeableLine(finalBarcode),
    bank_code       |-> bankCode,
    bank_name       |-> getBankName(bankCode),
    amount          |-> amount,
    due_date        |-> dueDate,
    document_number |-> documentNumber ]

generateBoleto(bankCode, amount, dueDate, documentNumber) ==
  IF Len(bankCode) # 3 THEN ErrorResult("Bank code must have 3 digits")
  ELSE IF NumberLteZero(amount) THEN ErrorResult("Amount must be greater than 0")
  ELSE IF ~dueDate.valid THEN ErrorResult("Invalid due date format")
  ELSE BoletoResult(bankCode, amount, dueDate, documentNumber,
                    FinalBarcode(BoletoBarcode(bankCode, amount, dueDate, documentNumber)))

(***************************************************************************)
(* FinanceService.generatePixQR and calculateCRC16.                         *)
(***************************************************************************)
\* the ASCII characters from the space (32) to the underscore (95), and from
\* a (97) to the tilde (126), in code order
AsciiUpper ==
  << " ", "!", "\"", "#", "$", "%", "&", "'", "(", ")", "*", "+",
     ",", "-", ".", "/", "0", "1", "2", "3", "4", "5", "6", "7",
     "8", "9", ":", ";", "<", "=", ">", "?", "@", "A", "B", "C",
     "D", "E", "F", "G", "H", "I", "J", "K", "L", "M", "N", "O",
     "P", "Q", "R", "S", "T", "U", "V", "W", "X", "Y", "Z", "[",
     "\\", "]", "^", "_" >>

AsciiLower ==
  << "a", "b", "c", "d", "e", "f", "g", "h", "i", "j", "k", "l",
     "m", "n", "o", "p", "q", "r", "s", "t", "u", "v", "w", "x",
     "y", "z", "{", "|", "}", "~" >>

\* String.prototype.charCodeAt for one character
charCodeAt(c) ==
  IF \E i \in 1..Len(AsciiUpper) : AsciiUpper[i] = c
  THEN 31 + (CHOOSE i \in 1..Len(AsciiUpper) : AsciiUpper[i] = c)
  ELSE IF \E i \in 1..Len(AsciiLower) : AsciiLower[i] = c
  THEN 96 + (CHOOSE i \in 1..Len(AsciiLower) : AsciiLower[i] = c)
  ELSE CASE c = "ã" -> 227
         [] c = "ç" -> 231
         [] c = "€" -> 8364

\* bitwise exclusive or of two naturals
RECURSIVE BitXor(_, _)
BitXor(a, b) ==
  IF a = 0 THEN b
  ELSE IF b = 0 THEN a
  ELSE ((a + b) % 2) + 2 * BitXor(a \div 2, b \div 2)

\* a 32-bit integer is carried as its two 16-bit halves
Int32(hi, lo) == [hi |-> hi % 65536, lo |-> lo % 65536]

\* crc ^ x for a natural x < 2^32 given as halves
Int32Xor(crc, x) == Int32(BitXor(crc.hi, x.hi), BitXor(crc.lo, x.lo))

\* crc << 1
Int32Shl1(crc) == Int32(crc.hi * 2 + (crc.lo \div 32768), crc.lo * 2)

\* const polynomial = 0x1021
Polynomial == Int32(0, 4129)

\* one turn of the inner loop of calculateCRC16
CRCShift(crc) ==
  IF (crc.lo \div 32768) % 2 # 0
  THEN Int32Xor(Int32Shl1(crc), Polynomial)
  ELSE Int32Shl1(crc)

RECURSIVE CRCBits(_, _)
CRCBits(crc, j) == IF j = 8 THEN crc ELSE CRCBits(CRCShift(crc), j + 1)

\* one turn of the outer loop: crc ^= code << 8, then eight shifts
CRCChar(crc, code) == CRCBits(Int32Xor(crc, Int32(code \div 256, (code % 256) * 256)), 0)

\* the outer loop over payload[from..to], halving the range
RECURSIVE CRCLoop(_, _, _, _)
CRCLoop(payload, from, to, crc) ==
  IF crc.lo < 0 \/ from > to THEN crc
  ELSE IF from = to THEN CRCChar(crc, charCodeAt(payload[from]))
  ELSE CRCLoop(payload, ((from + to) \div 2) + 1, to,
               CRCLoop(payload, from, (from + to) \div 2, crc))

HexChars == <<"0", "1", "2", "3", "4", "5", "6", "7", "8", "9", "A", "B", "C", "D", "E", "F">>

\* n.toString(16).toUpperCase() for a natural n
RECURSIVE ToHex(_)
ToHex(n) == IF n < 16 THEN <<HexChars[n + 1]>> ELSE ToHex(n \div 16) \o <<HexChars[(n % 16) + 1]>>

\* (crc & 0xFFFF).toString(16).toUpperCase().padStart(4, '0')
CRCToString(crc) == padStart(ToHex(crc.lo), 4, "0")

\* calculateCRC16 with the initial value 0x0000 (CRC16/XMODEM)
calculateCRC16Xmodem(payload) == CRCToString(CRCLoop(payload, 1, Len(payload), Int32(0, 0)))

calculateCRC16(payload) == CRCToString(CRCLoop(payload, 1, Len(payload), Int32(0, 65535)))

\* x.length.toString().padStart(2, '0')
LengthOf(str) == padStart(IntToString(Len(str)), 2, "0")

\* Number.prototype.toFixed(2) of a number amount > 0: the integer n nearest
\* to the exact double times 100 (the larger on a tie), printed with a point
\* before its last two digits
ToFixedDigits(n) == padStart(NToString(n), 3, "0")

PointBeforeLastTwo(str) ==
  SubSeq(str, 1, Len(str) - 2) \o <<".">> \o SubSeq(str, Len(str) - 1, Len(str))

ExactTimesHundred(b) == [m |-> NMulSmall(b.m, 100), s |-> b.s]

toFixed2(amount) ==
  PointBeforeLastTwo(ToFixedDigits(MathRound(ExactTimesHundred(BinRound(amount.mag)))))

\* the transaction amount field, added only if (amount > 0)
AmountField(amount) ==
  IF NumberGtZero(amount) THEN <<"5", "4">> \o LengthOf(toFixed2(amount)) \o toFixed2(amount)
  ELSE <<>>

\* `01${keyLength}${key}`
KeyInfo(key) == <<"0", "1">> \o LengthOf(key) \o key

\* the description sub-field; an absent description and '' are both <<>>
DescInfo(description) ==
  IF description = <<>> THEN <<>> ELSE <<"0", "2">> \o LengthOf(description) \o description

\* gui + keyInfo + descInfo
MerchantInfo(key, description) ==
  <<"0", "0", "1", "4", "b", "r", ".", "g", "o", "v", ".", "b", "c", "b", ".", "p", "i", "x">>
    \o KeyInfo(key) \o DescInfo(description)

\* the payload up to and including the CRC16 placeholder '6304'
PixPayload(key, amount, receiverName, city, description) ==
  <<"0", "0", "0", "2", "0", "1">>
    \o <<"2", "6">> \o LengthOf(MerchantInfo(key, description)) \o MerchantInfo(key, description)
    \o <<"5", "2", "0", "4", "0", "0", "0", "0">>
    \o <<"5", "3", "0", "3", "9", "8", "6">>
    \o AmountField(amount)
    \o <<"5", "8", "0", "2", "B", "R">>
    \o <<"5", "9">> \o LengthOf(receiverName) \o receiverName
    \o <<"6", "0">> \o LengthOf(city) \o city
    \o <<"6", "2", "0", "7", "0", "5", "0", "3", "*", "*", "*">>
    \o <<"6", "3", "0", "4">>

\* the object generatePixQR returns
PixResult(key, amount, receiverName, city, description, payload) ==
  [ payload     |-> payload,
    qr_code     |-> payload,
    amount      |-> amount,
    receiver    |-> receiverName,
    key         |-> key,
    city        |-> city,
    description |-> description,
    brcode      |-> <<"0", "0", "0", "2", "0", "1", "2", "6">>
                      \o IntToString(Len(payload) - 8) \o substringFrom(payload, 8) ]

\* payload += crc
WithCRC(payload) == payload \o calculateCRC16(payload)

generatePixQR(key, amount, receiverName, city, description) ==
  IF NumberLteZero(amount) THEN ErrorResult("Amount must be greater than 0")
  ELSE PixResult(key, amount, receiverName, city, description,
                 WithCRC(PixPayload(key, amount, receiverName, city, description)))

(***************************************************************************)
(* DocumentValidator (documents.ts) and the cpf-cnpj-validator functions   *)
(* it imports.  A result is {valid: true, formatted, unformatted} or       *)
(* {valid: false, error}.                                                  *)
(***************************************************************************)
\* String.prototype.replace(/\D/g, '')
StripNonDigits(str) == SelectSeq(str, IsDigitChar)

\* sum of digit k times weights[k] over the first i digits
RECURSIVE WeightedSum(_, _, _)
WeightedSum(digits, weights, i) ==
  IF i = 0 THEN 0
  ELSE WeightedSum(digits, weights, i - 1) + DigitValue(digits[i]) * weights[i]

\* parseInt of a string of digits
RECURSIVE ParseDigits(_, _)
ParseDigits(digits, i) ==
  IF i = 0 THEN 0 ELSE 10 * ParseDigits(digits, i - 1) + DigitValue(digits[i])

Invalid(error) == [valid |-> FALSE, error |-> error]

Valid(formatted, unformatted) ==
  [valid |-> TRUE, formatted |-> formatted, unformatted |-> unformatted]

\* the sequences cpf-cnpj-validator refuses whatever their check digits
RepeatedDigit(n) == { [i \in 1..n |-> DigitChars[d + 1]] : d \in 0..9 }

CPFBlacklist ==
  RepeatedDigit(11) \cup {<<"1", "2", "3", "4", "5", "6", "7", "8", "9", "0", "9">>}

CNPJBlacklist == RepeatedDigit(14)

\* cpf verifierDigit: weights modulus - index, modulus = length + 1
CPFVerifierDigit(digits) ==
  LET mod == WeightedSum(digits, [k \in 1..Len(digits) |-> Len(digits) + 2 - k],
                         Len(digits)) % 11
  IN  IF mod < 2 THEN 0 ELSE 11 - mod

CPFWithDigit(numbers) == Append(numbers, DigitChars[CPFVerifierDigit(numbers) + 1])

cpfIsValid(number) ==
  LET stripped == StripNonDigits(number)
  IN  /\ Len(stripped) = 11
      /\ stripped \notin CPFBlacklist
      /\ SubSeq(CPFWithDigit(CPFWithDigit(SubSeq(stripped, 1, 9))), 10, 11)
           = SubSeq(stripped, 10, 11)

\* cpf.format: XXX.XXX.XXX-XX
cpfFormat(c) ==
  SubSeq(c, 1, 3) \o <<".">> \o SubSeq(c, 4, 6) \o <<".">> \o SubSeq(c, 7, 9)
    \o <<"-">> \o SubSeq(c, 10, 11)

\* cnpj verifierDigit: weights 2..9 repeating from the last digit
CNPJVerifierDigit(digits) ==
  LET mod == WeightedSum(digits,
                         [k \in 1..Len(digits) |-> 2 + ((Len(digits) - k) % 8)],
                         Len(digits)) % 11
  IN  IF mod < 2 THEN 0 ELSE 11 - mod

CNPJWithDigit(numbers) == Append(numbers, DigitChars[CNPJVerifierDigit(numbers) + 1])

cnpjIsValid(number) ==
  LET stripped == StripNonDigits(number)
  IN  /\ Len(stripped) = 14
      /\ stripped \notin CNPJBlacklist
      /\ SubSeq(CNPJWithDigit(CNPJWithDigit(SubSeq(stripped, 1, 12))), 13, 14)
           = SubSeq(stripped, 13, 14)

\* cnpj.format: XX.XXX.XXX/XXXX-XX
cnpjFormat(c) ==
  SubSeq(c, 1, 2) \o <<".">> \o SubSeq(c, 3, 5) \o <<".">> \o SubSeq(c, 6, 8)
    \o <<"/">> \o SubSeq(c, 9, 12) \o <<"-">> \o SubSeq(c, 13, 14)

CPFChecked(cleanCPF) ==
  IF Len(cleanCPF) # 11 THEN Invalid("CPF must have 11 digits")
  ELSE IF cpfIsValid(cleanCPF) THEN Valid(cpfFormat(cleanCPF), cleanCPF)
  ELSE Invalid("Invalid CPF checksum")

validateCPF(cpfInput) == CPFChecked(StripNonDigits(cpfInput))

CNPJChecked(cleanCNPJ) ==
  IF Len(cleanCNPJ) # 14 THEN Invalid("CNPJ must have 14 digits")
  ELSE IF cnpjIsValid(cleanCNPJ) THEN Valid(cnpjFormat(cleanCNPJ), cleanCNPJ)
  ELSE Invalid("Invalid CNPJ checksum")

validateCNPJ(cnpjInput) == CNPJChecked(StripNonDigits(cnpjInput))

\* the weights 11..2 of a CPF's second pass in place of the PIS weights
PISWeightsDescending == <<11, 10, 9, 8, 7, 6, 5, 4, 3, 2>>

PISWeights == <<3, 2, 9, 8, 7, 6, 5, 4, 3, 2>>

\* PISCheckDigit without the remainder < 2 case
PISCheckDigitNoZeroCase(cleanPIS) == 11 - (WeightedSum(cleanPIS, PISWeights, 10) % 11)

PISCheckDigit(cleanPIS) ==
  LET remainder == WeightedSum(cleanPIS, PISWeights, 10) % 11
  IN  IF remainder < 2 THEN 0 ELSE 11 - remainder

\* XXX.XXXXX.XX-X
PISFormat(c) ==
  SubSeq(c, 1, 3) \o <<".">> \o SubSeq(c, 4, 8) \o <<".">> \o SubSeq(c, 9, 10)
    \o <<"-">> \o SubSeq(c, 11, 11)

PISChecked(cleanPIS) ==
  IF Len(cleanPIS) # 11 THEN Invalid("PIS must have 11 digits")
  ELSE IF PISCheckDigit(cleanPIS) = DigitValue(cleanPIS[11])
  THEN Valid(PISFormat(cleanPIS), cleanPIS)
  ELSE Invalid("Invalid PIS checksum")

validatePIS(pisInput) == PISChecked(StripNonDigits(pisInput))

VoterStates ==
  << "SP", "MG", "RJ", "BA", "PR", "SC", "RS", "ES", "DF", "SE", "MS", "PB", "AC", "AM",
     "AP", "PA", "MA", "PI", "CE", "RN", "PE", "AL", "RR", "GO", "TO", "MT", "RO" >>

VoterStateOf(stateCode) ==
  IF stateCode \in 1..Len(VoterStates) THEN VoterStates[stateCode] ELSE "Unknown"

VoterStateCode(cleanID) == ParseDigits(substring(cleanID, 8, 10), 2)

\* sum1 % 11 over the 8 sequence digits, weights i + 2
VoterDigit1(cleanID) ==
  WeightedSum(substring(cleanID, 0, 8), [k \in 1..8 |-> k + 1], 8) % 11

VoterDigit2(stateCode, digit1) == (stateCode * 7 + stateCode * 8 + digit1 * 9) % 11

\* the template string `${digit1}${digit2}`
VoterCheckDigits(cleanID) ==
  IntToString(VoterDigit1(cleanID))
    \o IntToString(VoterDigit2(VoterStateCode(cleanID), VoterDigit1(cleanID)))

\* XXXX XXXX XXXX
VoterFormat(c) ==
  SubSeq(c, 1, 4) \o <<" ">> \o SubSeq(c, 5, 8) \o <<" ">> \o SubSeq(c, 9, 12)

VoterChecked(cleanID) ==
  IF Len(cleanID) # 12 THEN Invalid("Voter ID must have 12 digits")
  ELSE IF VoterCheckDigits(cleanID) = substring(cleanID, 10, 12)
  THEN [valid |-> TRUE, formatted |-> VoterFormat(cleanID), unformatted |-> cleanID,
        state |-> VoterStateOf(VoterStateCode(cleanID))]
  ELSE Invalid("Invalid Voter ID checksum")

validateVoterID(voterIdInput) == VoterChecked(StripNonDigits(voterIdInput))

(***************************************************************************)
(* FinanceService.validatePixKey.  A result carries valid, key,            *)
(* original_key, key_type, can_receive_pix, message and, by key type, type *)
(* and formatted.                                                          *)
(***************************************************************************)
\* the characters /\s/ matches among those the requests use
WhiteSpace == {" ", "\t", "\n", "\r"}

\* /[^\s@]+/ on a whole string
NoSpaceNoAt(str) ==
  Len(str) > 0 /\ \A i \in 1..Len(str) : str[i] \notin WhiteSpace \cup {"@"}

\* /^[^\s@]+@[^\s@]+\.[^\s@]+$/
emailRegex(key) ==
  \E i \in 1..Len(key), j \in 1..Len(key) :
    /\ i < j
    /\ key[i] = "@"
    /\ key[j] = "."
    /\ NoSpaceNoAt(SubSeq(key, 1, i - 1))
    /\ NoSpaceNoAt(SubSeq(key, i + 1, j - 1))
    /\ NoSpaceNoAt(SubSeq(key, j + 1, Len(key)))

HexDigitChars ==
  {"0", "1", "2", "3", "4", "5", "6", "7", "8", "9", "a", "b", "c", "d", "e", "f",
   "A", "B", "C", "D", "E", "F"}

\* /^[0-9a-f]{8}-[0-9a-f]{4}-4[0-9a-f]{3}-[89ab][0-9a-f]{3}-[0-9a-f]{12}$/i
uuidRegex(key) ==
  /\ Len(key) = 36
  /\ \A i \in 1..36 :
       IF i \in {9, 14, 19, 24} THEN key[i] = "-"
       ELSE IF i = 15 THEN key[i] = "4"
       ELSE IF i = 20 THEN key[i] \in {"8", "9", "a", "b", "A", "B"}
       ELSE key[i] \in HexDigitChars

startsWith(str, prefix) ==
  Len(str) >= Len(prefix) /\ SubSeq(str, 1, Len(prefix)) = prefix

\* formattedKey.replace(/^(\+55)(\d{2})(\d{5})(\d{4})$/, '$1 $2 $3-$4')
PhoneFormatted(formattedKey) ==
  IF /\ Len(formattedKey) = 14
     /\ SubSeq(formattedKey, 1, 3) = <<"+", "5", "5">>
     /\ \A i \in 4..14 : IsDigitChar(formattedKey[i])
  THEN SubSeq(formattedKey, 1, 3) \o <<" ">> \o SubSeq(formattedKey, 4, 5) \o <<" ">>
         \o SubSeq(formattedKey, 6, 10) \o <<"-">> \o SubSeq(formattedKey, 11, 14)
  ELSE formattedKey

\* isValid of the phone branch
PhoneIsValid(cleanPhone) ==
  IF startsWith(cleanPhone, <<"5", "5">>) THEN Len(cleanPhone) = 13
  ELSE Len(cleanPhone) = 11

\* formattedKey of the phone branch
PhoneKey(key, cleanPhone) ==
  IF PhoneIsValid(cleanPhone) /\ ~startsWith(cleanPhone, <<"5", "5">>)
  THEN <<"+", "5", "5">> \o cleanPhone
  ELSE key

\* keyType.toUpperCase() of the five key types
KeyTypeUpper(keyType) ==
  CASE keyType = "cpf" -> "CPF"
    [] keyType = "cnpj" -> "CNPJ"
    [] keyType = "email" -> "EMAIL"
    [] keyType = "phone" -> "PHONE"
    [] keyType = "random" -> "RANDOM"

\* the object validatePixKey returns, additionalInfo spread into it
PixKeyResult(key, keyType, isValid, formattedKey, additionalInfo) ==
  [ valid           |-> isValid,
    key             |-> formattedKey,
    original_key    |-> key,
    key_type        |-> keyType,
    can_receive_pix |-> isValid,
    message         |-> IF isValid THEN <<"Valid PIX key">>
                        ELSE <<"Invalid ", KeyTypeUpper(keyType), " format">> ]
    @@ additionalInfo

NoInfo == [x \in {} |-> TRUE]

PixKeyCPF(key, cleanCPF) ==
  IF cpfIsValid(cleanCPF)
  THEN PixKeyResult(key, "cpf", TRUE, cpfFormat(cleanCPF), [type |-> "CPF"])
  ELSE PixKeyResult(key, "cpf", FALSE, key, NoInfo)

PixKeyCNPJ(key, cleanCNPJ) ==
  IF cnpjIsValid(cleanCNPJ)
  THEN PixKeyResult(key, "cnpj", TRUE, cnpjFormat(cleanCNPJ), [type |-> "CNPJ"])
  ELSE PixKeyResult(key, "cnpj", FALSE, key, NoInfo)

PixKeyPhone(key, cleanPhone) ==
  IF PhoneIsValid(cleanPhone)
  THEN PixKeyResult(key, "phone", TRUE, PhoneKey(key, cleanPhone),
                    [type |-> "Phone", formatted |-> PhoneFormatted(PhoneKey(key, cleanPhone))])
  ELSE PixKeyResult(key, "phone", FALSE, key, NoInfo)

\* validatePixKey answering an unknown key type with valid = false
validatePixKeySilentFalse(key, keyType) ==
  CASE keyType = "cpf" -> PixKeyCPF(key, StripNonDigits(key))
    [] keyType = "cnpj" -> PixKeyCNPJ(key, StripNonDigits(key))
    [] keyType = "email" ->
         PixKeyResult(key, "email", emailRegex(key), key, [type |-> "Email"])
    [] keyType = "phone" -> PixKeyPhone(key, StripNonDigits(key))
    [] keyType = "random" ->
         PixKeyResult(key, "random", uuidRegex(key), key, [type |-> "Random Key (UUID)"])
    [] OTHER ->
         [ valid |-> FALSE, key |-> key, original_key |-> key, key_type |-> keyType,
           can_receive_pix |-> FALSE, message |-> <<"Invalid key type">> ]

validatePixKey(key, keyType) ==
  CASE keyType = "cpf" -> PixKeyCPF(key, StripNonDigits(key))
    [] keyType = "cnpj" -> PixKeyCNPJ(key, StripNonDigits(key))
    [] keyType = "email" ->
         PixKeyResult(key, "email", emailRegex(key), key, [type |-> "Email"])
    [] keyType = "phone" -> PixKeyPhone(key, StripNonDigits(key))
    [] keyType = "random" ->
         PixKeyResult(key, "random", uuidRegex(key), key, [type |-> "Random Key (UUID)"])
    [] OTHER ->
         ErrorResult("Invalid key type. Must be: cpf, cnpj, email, phone, or random")

(***************************************************************************)
(* The outbound lookups.  A response of axios.get is a failure (the        *)
(* promise rejects: no answer, or an HTTP status outside 2xx) or the data  *)
(* of the answer.                                                          *)
(***************************************************************************)
\* value || fallback on a number: 0 is falsy
NumberOr(value, fallback) == IF value = 0 THEN fallback ELSE value

\* value || fallback on a string: '' is falsy
StringOr(value, fallback) == IF value = "" THEN fallback ELSE value

Failed(status, message) == [failed |-> TRUE, status |-> status, message |-> message]

Answered(data) == [failed |-> FALSE, data |-> data]

\* the request axios.get issues: the service's base URL and the digits
Request(url, digits) == [url |-> url, digits |-> digits]

(***************************************************************************)
(* BusinessService (business.ts).  Of the company data the registry        *)
(* returns, the fields the two operations decide on are kept.              *)
(***************************************************************************)
receitaWSUrl == "https://receitaws.com.br/v1/cnpj"

translateStatus(status) ==
  CASE status = "ATIVA" -> "Active"
    [] status = "SUSPENSA" -> "Suspended"
    [] status = "INAPTA" -> "Inactive"
    [] status = "BAIXADA" -> "Closed"
    [] status = "NULA" -> "Null"
    [] OTHER -> status

determineTaxRegime(data) ==
  IF data.simei THEN "MEI - Microempreendedor Individual"
  ELSE IF data.simples THEN "Simples Nacional"
  ELSE IF data.porte = "DEMAIS" THEN "Lucro Real"
  ELSE "Lucro Presumido"

determineCompanySize(porte) ==
  CASE porte = "ME" -> "Microempresa"
    [] porte = "EPP" -> "Empresa de Pequeno Porte"
    [] porte = "DEMAIS" -> "Grande Porte"
    [] OTHER -> porte

\* the object lookupCNPJ returns for the data of a company
CompanyResult(cleanCNPJ, data) ==
  [ cnpj             |-> cnpjFormat(cleanCNPJ),
    company_name     |-> data.nome,
    trade_name       |-> StringOr(data.fantasia, data.nome),
    status           |-> translateStatus(data.situacao),
    simples_nacional |-> [opted |-> data.simples],
    mei              |-> [opted |-> data.simei],
    tax_regime       |-> determineTaxRegime(data),
    size             |-> determineCompanySize(data.porte) ]

\* lookupCNPJ asking the registry about any input
LookupCNPJRequestsUnvalidated(cnpjInput) ==
  <<Request(receitaWSUrl, StripNonDigits(cnpjInput))>>

\* the requests lookupCNPJ issues before it first waits
LookupCNPJRequests(cnpjInput) ==
  IF cnpjIsValid(StripNonDigits(cnpjInput))
  THEN <<Request(receitaWSUrl, StripNonDigits(cnpjInput))>>
  ELSE <<>>

\* lookupCNPJ from the response on (with no request: the immediate return)
lookupCNPJ(cnpjInput, responses) ==
  IF ~cnpjIsValid(StripNonDigits(cnpjInput)) THEN ErrorResult("Invalid CNPJ")
  ELSE IF responses[1].failed
  THEN IF responses[1].status = 429
       THEN ErrorResult("Rate limit exceeded. Please wait 1 minute and try again.")
       ELSE ErrorResult(StringOr(responses[1].message, "Failed to lookup CNPJ"))
  ELSE IF responses[1].data.status = "ERROR"
  THEN ErrorResult(StringOr(responses[1].data.message, "CNPJ not found"))
  ELSE CompanyResult(StripNonDigits(cnpjInput), responses[1].data)

\* the object checkSimplesNacional returns for a company
SimplesResult(companyData) ==
  [ cnpj             |-> companyData.cnpj,
    company_name     |-> companyData.company_name,
    simples_nacional |-> [ opted  |-> companyData.simples_nacional.opted,
                           status |-> IF companyData.simples_nacional.opted
                                      THEN "ACTIVE" ELSE "NOT_OPTED" ],
    mei              |-> [ opted  |-> companyData.mei.opted,
                           status |-> IF companyData.mei.opted THEN "ACTIVE" ELSE "NOT_OPTED" ],
    tax_regime       |-> companyData.tax_regime,
    can_issue_nfse   |-> TRUE,
    can_issue_nfe    |-> ~companyData.mei.opted ]

\* checkSimplesNacional from the result of its lookupCNPJ call on
SimplesOn(companyData) ==
  IF IsError(companyData) /\ companyData.error THEN companyData
  ELSE SimplesResult(companyData)

checkSimplesNacional(cnpjInput, responses) == SimplesOn(lookupCNPJ(cnpjInput, responses))

(***************************************************************************)
(* AddressService (address.js).                                            *)
(***************************************************************************)
viaCepUrl == "https://viacep.com.br/ws"

\* the requests lookupCEP issues before it first waits
LookupCEPRequests(cepInput) ==
  IF Len(StripNonDigits(cepInput)) # 8 THEN <<>>
  ELSE <<Request(viaCepUrl, StripNonDigits(cepInput))>>

\* the object lookupCEP returns for the data of an address
AddressResult(data) ==
  [ cep          |-> data.cep,
    street       |-> data.logradouro,
    neighborhood |-> data.bairro,
    city         |-> data.localidade,
    state        |-> data.uf ]

\* lookupCEP from the response on (with no request: the immediate return)
lookupCEP(cepInput, responses) ==
  IF Len(StripNonDigits(cepInput)) # 8 THEN ErrorResult("CEP must have 8 digits")
  ELSE IF responses[1].failed
  THEN ErrorResult(responses[1].message)
  ELSE IF responses[1].data.erro THEN ErrorResult("CEP not found")
  ELSE AddressResult(responses[1].data)

\* /^(\d)\1{7}$/
SameDigitCEP(cleanCEP) == \A i \in 1..Len(cleanCEP) : cleanCEP[i] = cleanCEP[1]

validateCEP(cepInput) ==
  IF Len(StripNonDigits(cepInput)) # 8 THEN Invalid("CEP must have 8 digits")
  ELSE IF SameDigitCEP(StripNonDigits(cepInput)) THEN Invalid("Invalid CEP pattern")
  ELSE [ valid       |-> TRUE,
         formatted   |-> SubSeq(StripNonDigits(cepInput), 1, 5) \o <<"-">>
                           \o SubSeq(StripNonDigits(cepInput), 6, 8),
         unformatted |-> StripNonDigits(cepInput) ]

\* parseInt(cepInput.replace(/\D/g, ''))
CepNumber(cepInput) == ParseDigits(StripNonDigits(cepInput), Len(StripNonDigits(cepInput)))

\* Math.round(Math.max(cep1Num - cep2Num, 0) / 100): the difference one way only
ApproximateKmOneWay(cep1Num, cep2Num) ==
  IF cep1Num >= cep2Num THEN (cep1Num - cep2Num + 50) \div 100 ELSE 0

\* Math.round(Math.abs(cep1Num - cep2Num) / 100): the quotient is below 10^6,
\* its half-way values are doubles, so it is rounded half up exactly
ApproximateKm(cep1Num, cep2Num) ==
  ((IF cep1Num >= cep2Num THEN cep1Num - cep2Num ELSE cep2Num - cep1Num) + 50) \div 100

\* the double nearest to 0.621371
MileFactor == BinRound(DFrom(621371, 6).mag)

\* Math.round(approximateKm * 0.621371)
Miles(approximateKm) ==
  IF approximateKm = 0 THEN 0
  ELSE NToInt(MathRound(BinRoundInt(NMulSmall(MileFactor.m, approximateKm), MileFactor.s)))

\* the object calculateDistance returns for two addresses
DistanceResult(addr1, addr2, approximateKm) ==
  [ from       |-> [cep |-> addr1.cep, city |-> addr1.city, state |-> addr1.state],
    to         |-> [cep |-> addr2.cep, city |-> addr2.city, state |-> addr2.state],
    distance   |-> [km |-> approximateKm, miles |-> Miles(approximateKm)],
    same_state |-> addr1.state = addr2.state,
    same_city  |-> addr1.city = addr2.city ]

\* calculateDistance from the results of its two lookupCEP calls on
DistanceOn(cep1Input, cep2Input, addr1, addr2) ==
  IF IsError(addr1) \/ IsError(addr2)
  THEN ErrorResult("Failed to lookup one or both CEPs")
  ELSE DistanceResult(addr1, addr2, ApproximateKm(CepNumber(cep1Input), CepNumber(cep2Input)))

\* the requests calculateDistance issues before it first waits: Promise.all
\* runs both lookupCEP calls up to their axios.get
DistanceRequests(cep1Input, cep2Input) ==
  LookupCEPRequests(cep1Input) \o LookupCEPRequests(cep2Input)

\* the responses to the requests of the second lookupCEP call
SecondResponses(cep1Input, responses) ==
  SubSeq(responses, Len(LookupCEPRequests(cep1Input)) + 1, Len(responses))

calculateDistance(cep1Input, cep2Input, responses) ==
  DistanceOn(cep1Input, cep2Input, lookupCEP(cep1Input, responses),
             lookupCEP(cep2Input, SecondResponses(cep1Input, responses)))

(***************************************************************************)
(* The service as a state machine: a request arrives (Receive...), the     *)
(* operation it names runs to completion (one action per operation) and    *)
(* the result is handed back (Return).  The service keeps no state between *)
(* requests.                                                               *)
(***************************************************************************)
MaxDependents == 2

NoArgs == [none |-> TRUE]

NoResult == [none |-> TRUE]

\* upper bounds of the first four IRPF brackets and of the INSS brackets, in cents
IRPFEdges == {211200, 282665, 375105, 466468}

INSSEdges == {141200, 266668, 400003, 778602}

\* monthly incomes: every bracket edge, one cent below and above it, the same
\* shifted by the dependents' deduction, values between two cents, and others
IncomeInputs ==
  { Cents(e + o + d * 18959) : e \in IRPFEdges, o \in {-1, 0, 1, 2}, d \in 0..MaxDependents }
    \cup { DFrom(10 * e + 5, 3) : e \in IRPFEdges }
    \cup { Cents(c) : c \in {0, 1, 10000, 100000, 250000, 300000, 400000, 500000, 1000000} }

SalaryInputs ==
  { Cents(e + o) : e \in INSSEdges, o \in {-1, 0, 1, 2} }
    \cup { DFrom(10 * e + 5, 3) : e \in INSSEdges }
    \cup { Cents(c) : c \in {0, 1, 100000, 128433, 230401, 300000, 333333, 500000, 1000000, 2000000} }

TypeInputs == {"employee", "self-employed", "freelancer", ""}

VacationSalaries == { Cents(c) : c \in {0, 128433, 300000, 333333, 1000000} }

DaysInputs == {-1, 0, 15, 30, 31}

SellDaysInputs == {-1, 0, 7, 10, 11}

ThirteenthSalaries ==
  { Cents(c) : c \in {0, 100000, 141200, 230401, 300000, 333333, 500000, 778602, 1000000,
                       5000000, 100000000} }

MonthsInputs == {-1, 0, 1, 5, 11, 12, 13}

\* a request whose params carry no arguments object
NoArguments == [undefined |-> TRUE]

ArgumentsGiven == "undefined" \notin DOMAIN args

NoResponse == [none |-> TRUE]

\* the response of the handler for a result; text is carried as the object
\* JSON.stringify turns into the text
TextResponse(r) == [content |-> <<[type |-> "text", text |-> r]>>]

\* the response of the handler's catch, without isError
ErrorResponseUnflagged(message, name) ==
  [ content |-> <<[ type |-> "text",
                    text |-> [error |-> TRUE, message |-> message, tool |-> name] ]>> ]

\* the response of the handler's catch
ErrorResponse(message, name) ==
  [ content |-> <<[ type |-> "text",
                    text |-> [error |-> TRUE, message |-> message, tool |-> name] ]>>,
    isError |-> TRUE ]

\* args.<name> is not undefined
Has(name) == name \in DOMAIN args

\* args.<name> || fallback, on a number and on a string
NumberArgOr(name, fallback) == IF Has(name) THEN NumberOr(args[name], fallback) ELSE fallback

StringArgOr(name, fallback) == IF Has(name) THEN StringOr(args[name], fallback) ELSE fallback

\* args.<name> as a number, Undefined if the bag does not carry it
NumberArg(name) == IF Has(name) THEN args[name] ELSE Undefined

\* the message of the TypeError for a property read on undefined
CannotRead(property) == "Cannot read properties of undefined (reading '" \o property \o "')"

\* the message of new Decimal(undefined)
DecimalOfUndefined == "[DecimalError] Invalid argument: undefined"

Init ==
  /\ pc = "idle"
  /\ tool = "none"
  /\ args = NoArgs
  /\ result = NoResult
  /\ sent = <<>>
  /\ replies = <<>>
  /\ response = NoResponse

Receive(t, a) ==
  /\ pc = "idle"
  /\ pc' = "running"
  /\ tool' = t
  /\ args' = a
  /\ result' = NoResult
  /\ sent' = <<>>
  /\ replies' = <<>>
  /\ response' = NoResponse

Finish(t, r) ==
  /\ pc = "running"
  /\ tool = t
  /\ ArgumentsGiven
  /\ pc' = "done"
  /\ result' = r
  /\ response' = TextResponse(r)
  /\ UNCHANGED <<tool, args, sent, replies>>

Return ==
  /\ pc = "done"
  /\ pc' = "idle"
  /\ tool' = "none"
  /\ args' = NoArgs
  /\ result' = NoResult
  /\ sent' = <<>>
  /\ replies' = <<>>
  /\ response' = NoResponse

ReceiveIncomeTax ==
  \E m \in IncomeInputs, d \in 0..MaxDependents :
    Receive("calculate_income_tax", [monthly_income |-> m, dependents |-> d])

CalculateIncomeTax ==
  Finish("calculate_income_tax",
         IF Has("monthly_income")
         THEN calculateIncomeTax(args.monthly_income, NumberArgOr("dependents", 0))
         ELSE ErrorResult(DecimalOfUndefined))

ReceiveINSS ==
  \E sal \in SalaryInputs, ty \in TypeInputs :
    Receive("calculate_inss", [salary |-> sal, type |-> ty])

CalculateINSS ==
  Finish("calculate_inss",
         IF Has("salary") THEN calculateINSS(args.salary, StringArgOr("type", "employee"))
         ELSE ErrorResult(DecimalOfUndefined))

ReceiveFGTS == \E sal \in SalaryInputs : Receive("calculate_fgts", [salary |-> sal])

CalculateFGTS ==
  Finish("calculate_fgts",
         IF Has("salary") THEN calculateFGTS(args.salary) ELSE ErrorResult(DecimalOfUndefined))

ReceiveVacation ==
  \E sal \in VacationSalaries, d \in DaysInputs, sd \in SellDaysInputs :
    Receive("calculate_vacation", [salary |-> sal, days |-> d, sell_days |-> sd])

CalculateVacation ==
  Finish("calculate_vacation",
         IF Has("salary")
         THEN calculateVacation(args.salary, NumberArgOr("days", 30),
                                NumberArgOr("sell_days", 0))
         ELSE ErrorResult(DecimalOfUndefined))

Receive13thSalary ==
  \E sal \in ThirteenthSalaries, m \in MonthsInputs :
    Receive("calculate_13th_salary", [salary |-> sal, months_worked |-> m])

Calculate13thSalary ==
  Finish("calculate_13th_salary",
         IF Has("salary")
         THEN calculate13thSalary(args.salary, NumberArgOr("months_worked", 12))
         ELSE ErrorResult(DecimalOfUndefined))

\* a string literal as its characters
BankCodeInputs == { <<"0", "0", "1">>, <<"3", "4", "1">>, <<"A", "B", "C">>, <<"3", "4">> }

BoletoAmountInputs ==
  { DFrom(0, 0), DFrom(-100, 2), DFrom(1, 2), DFrom(15075, 2), DFrom(1005, 3),
    DFrom(123456789, 2), DFrom(100000000, 0) }

DueDateInputs ==
  { InvalidDate, DateOf(1997, 10, 6, 0), DateOf(1997, 10, 7, 0), DateOf(2000, 7, 3, 0),
    DateOf(2025, 2, 21, 0), DateOf(2025, 2, 21, 64800), DateOf(2025, 2, 22, 0),
    DateOf(2030, 1, 1, 0) }

DocumentInputs ==
  { <<>>,
    <<"1", "2", "3", "4", "5">>,
    <<"I", "N", "V", "-", "7">>,
    [i \in 1..25 |-> DigitChars[(i % 10) + 1]],
    [i \in 1..27 |-> DigitChars[(i % 10) + 1]] }

ReceiveBoleto ==
  \E b \in BankCodeInputs, a \in BoletoAmountInputs, d \in DueDateInputs, n \in DocumentInputs :
    Receive("generate_boleto",
            [bank_code |-> b, amount |-> a, due_date |-> d, document_number |-> n])

\* new Date(dueDate): of undefined the date is invalid
DueDateArg == IF Has("due_date") THEN args.due_date ELSE InvalidDate

\* generateBoleto goes past its three early returns
BoletoChecksPass ==
  /\ Len(args.bank_code) = 3
  /\ ~NumberLteZero(NumberArg("amount"))
  /\ DueDateArg.valid

\* generateBoleto throws: bankCode.length, or documentNumber.padStart once
\* the checks have passed
BoletoThrows ==
  \/ ~Has("bank_code")
  \/ ~Has("document_number") /\ BoletoChecksPass

GenerateBoleto ==
  Finish("generate_boleto",
         IF ~Has("bank_code") THEN ErrorResult(CannotRead("length"))
         ELSE IF BoletoThrows THEN ErrorResult(CannotRead("padStart"))
         ELSE generateBoleto(args.bank_code, NumberArg("amount"), DueDateArg,
                             IF Has("document_number") THEN args.document_number ELSE <<>>))

BoletoNext == ReceiveBoleto \/ GenerateBoleto \/ Return

BoletoSpec == Init /\ [][BoletoNext]_vars

\* the length of the longest receiver name sent
LongNameLength == 100

KeyInputs ==
  { <<"a", "@", "b", ".", "c", "o">>,
    <<"1", "2", "3", "4", "5", "6", "7", "8", "9", "0", "9">>,
    <<"1", "2", "3", "e", "4", "5", "6", "7", "-", "e", "8", "9", "b", "-", "4", "2", "d", "3",
      "-", "a", "4", "5", "6", "-", "4", "2", "6", "6", "1", "4", "1", "7", "4", "0", "0", "0">> }

PixAmountInputs ==
  { Undefined, DFrom(0, 0), DFrom(-1, 2), DFrom(1, 2), DFrom(1005, 3), DFrom(15075, 2),
    DFrom(123456789, 2) }

NameInputs ==
  { <<"J", "o", "a", "o">>,
    <<"J", "o", "ã", "o", " ", "S", "i", "l", "v", "a">>,
    [i \in 1..LongNameLength |-> "A"] }

CityInputs == { <<"S", "P">>, <<"S", "ã", "o", " ", "P", "a", "u", "l", "o">> }

\* no description, a short one, and
\* 'Pagamento do pedido 12345 - obrigado pela compra €'
DescriptionInputs ==
  { <<>>,
    <<"x">>,
    <<"P", "a", "g", "a", "m", "e", "n", "t", "o", " ", "d", "o", " ", "p", "e", "d", "i",
      "d", "o", " ", "1", "2", "3", "4", "5", " ", "-", " ", "o", "b", "r", "i", "g", "a",
      "d", "o", " ", "p", "e", "l", "a", " ", "c", "o", "m", "p", "r", "a", " ", "€">> }

ReceivePixQR ==
  \E k \in KeyInputs, a \in PixAmountInputs, n \in NameInputs, c \in CityInputs,
     d \in DescriptionInputs :
    Receive("generate_pix_qr",
            [key |-> k, amount |-> a, receiver_name |-> n, city |-> c, description |-> d])

\* args.<name> as a string that is read only where the bag carries it
StringArg(name) == IF Has(name) THEN args[name] ELSE <<>>

\* generatePixQR throws: key.length, receiverName.length or city.length, all
\* after the check of the amount
PixQRThrows ==
  /\ ~(Has("key") /\ Has("receiver_name") /\ Has("city"))
  /\ ~NumberLteZero(NumberArg("amount"))

GeneratePixQR ==
  Finish("generate_pix_qr",
         IF PixQRThrows THEN ErrorResult(CannotRead("length"))
         ELSE generatePixQR(StringArg("key"), NumberArg("amount"), StringArg("receiver_name"),
                            StringArg("city"), StringArg("description")))

PixNext == ReceivePixQR \/ GeneratePixQR \/ Return

PixSpec == Init /\ [][PixNext]_vars

\* the n-character decimal string of k, zero-padded
DigitsOf(k, n) == padStart(IntToString(k), n, "0")

\* CPF inputs: 9-digit bases with two check digits (right, wrong, repeated
\* digits, the refused 123.456.789-09), punctuated, too short, too long, empty
CPFBases == {529982247, 111444777, 123456789, 0, 111111111, 999999999}

CPFInputs ==
  { DigitsOf(b, 9) \o DigitsOf(c, 2) : b \in CPFBases, c \in {0, 9, 11, 25, 35, 99} }
    \cup { <<"5", "2", "9", ".", "9", "8", "2", ".", "2", "4", "7", "-", "2", "5">>,
           <<"C", "P", "F", " ", "5", "2", "9", "9", "8", "2", "2", "4", "7", "2", "5">>,
           <<"5", "2", "9", ".", "9", "8", "2", ".", "2", "4", "7", "-", "2", "6">>,
           DigitsOf(52998, 5) \o DigitsOf(22472, 5), DigitsOf(529982247, 9) \o DigitsOf(250, 3),
           <<>>, <<"a", "b", "c">> }

\* CNPJ inputs: 8-digit roots with branch 0001 and two check digits
CNPJRoots == {11222333, 11444777, 0, 11111111, 99999999}

CNPJInputs ==
  { DigitsOf(r, 8) \o DigitsOf(br, 4) \o DigitsOf(c, 2) :
      r \in CNPJRoots, br \in {1, 1111}, c \in {0, 11, 61, 81, 91} }
    \cup { <<"1", "1", ".", "2", "2", "2", ".", "3", "3", "3", "/", "0", "0", "0", "1", "-",
             "8", "1">>,
           DigitsOf(11222333, 8) \o DigitsOf(181, 5), DigitsOf(11222333, 8) \o DigitsOf(1810, 7),
           <<>>, <<"x">> }

\* PIS inputs: 10-digit prefixes with every check digit
PISHeads == {0, 12054, 40000, 99999}

PISTails == {0, 1, 32198, 99999}

PISInputs ==
  { DigitsOf(h, 5) \o DigitsOf(t, 5) \o DigitsOf(c, 1) :
      h \in PISHeads, t \in PISTails, c \in 0..9 }
    \cup { <<"1", "2", "0", ".", "5", "4", "3", "2", "1", ".", "9", "8", "-", "4">>,
           <<"1", "2", "0", ".", "5", "4", "3", "2", "1", ".", "9", "8", "-", "3">>,
           DigitsOf(1205432198, 10), DigitsOf(12054, 5) \o DigitsOf(3219840, 7),
           <<>>, <<"p", "i", "s">> }

\* Voter-ID inputs: 8-digit sequences, state codes, and every pair of check digits
VoterSequences == {0, 50000000, 10238501, 12345678, 99999999}

VoterStateCodes == {0, 1, 6, 27, 28, 99}

VoterInputs ==
  { DigitsOf(q, 8) \o DigitsOf(st, 2) \o DigitsOf(c, 2) :
      q \in VoterSequences, st \in VoterStateCodes, c \in 0..99 }
    \cup { <<"1", "0", "2", "3", " ", "8", "5", "0", "1", " ", "0", "6", "7", "1">>,
           DigitsOf(10238501, 8) \o DigitsOf(67, 3), DigitsOf(10238501, 8) \o DigitsOf(6710, 5),
           <<>>, <<"t", "i", "t", "u", "l", "o">> }

ReceiveCPF == \E c \in CPFInputs : Receive("validate_cpf", [cpf |-> c])

ValidateCPF ==
  Finish("validate_cpf",
         IF Has("cpf") THEN validateCPF(args.cpf) ELSE Invalid(CannotRead("replace")))

ReceiveCNPJ == \E c \in CNPJInputs : Receive("validate_cnpj", [cnpj |-> c])

ValidateCNPJ ==
  Finish("validate_cnpj",
         IF Has("cnpj") THEN validateCNPJ(args.cnpj) ELSE Invalid(CannotRead("replace")))

ReceivePIS == \E p \in PISInputs : Receive("validate_pis", [pis |-> p])

ValidatePIS ==
  Finish("validate_pis",
         IF Has("pis") THEN validatePIS(args.pis) ELSE Invalid(CannotRead("replace")))

ReceiveVoterID == \E v \in VoterInputs : Receive("validate_voter_id", [voter_id |-> v])

ValidateVoterID ==
  Finish("validate_voter_id",
         IF Has("voter_id") THEN validateVoterID(args.voter_id) ELSE Invalid(CannotRead("replace")))

\* the keys sent to validate_pix_key: those of generate_pix_qr and these
PixKeyInputs ==
  KeyInputs \cup {
    \* '11987654321'
    <<"1", "1", "9", "8", "7", "6", "5", "4", "3", "2", "1">>,
    \* '55987654321'
    <<"5", "5", "9", "8", "7", "6", "5", "4", "3", "2", "1">>,
    \* '5511987654321'
    <<"5", "5", "1", "1", "9", "8", "7", "6", "5", "4", "3", "2", "1">>,
    \* '1155987654321'
    <<"1", "1", "5", "5", "9", "8", "7", "6", "5", "4", "3", "2", "1">>,
    \* '551198765432'
    <<"5", "5", "1", "1", "9", "8", "7", "6", "5", "4", "3", "2">>,
    \* '1198765432'
    <<"1", "1", "9", "8", "7", "6", "5", "4", "3", "2">>,
    \* '(11) 98765-4321'
    <<"(", "1", "1", ")", " ", "9", "8", "7", "6", "5", "-", "4", "3", "2", "1">>,
    \* '(55) 99999-1234'
    <<"(", "5", "5", ")", " ", "9", "9", "9", "9", "9", "-", "1", "2", "3", "4">>,
    \* '+55 (11) 98765-4321'
    <<"+", "5", "5", " ", "(", "1", "1", ")", " ", "9", "8", "7", "6", "5", "-", "4", "3", "2", "1">>,
    \* '+5511987654321'
    <<"+", "5", "5", "1", "1", "9", "8", "7", "6", "5", "4", "3", "2", "1">>,
    \* '529.982.247-25'
    <<"5", "2", "9", ".", "9", "8", "2", ".", "2", "4", "7", "-", "2", "5">>,
    \* '11.222.333/0001-81'
    <<"1", "1", ".", "2", "2", "2", ".", "3", "3", "3", "/", "0", "0", "0", "1", "-", "8", "1">>,
    \* 'a b@c.d'
    <<"a", " ", "b", "@", "c", ".", "d">>,
    \* 'a@b'
    <<"a", "@", "b">>,
    \* '123E4567-E89B-42D3-A456-426614174000'
    <<"1", "2", "3", "E", "4", "5", "6", "7", "-", "E", "8", "9", "B", "-", "4", "2", "D", "3", "-", "A", "4", "5", "6", "-", "4", "2", "6", "6", "1", "4", "1", "7", "4", "0", "0", "0">>,
    \* '123e4567-e89b-12d3-a456-426614174000'
    <<"1", "2", "3", "e", "4", "5", "6", "7", "-", "e", "8", "9", "b", "-", "1", "2", "d", "3", "-", "a", "4", "5", "6", "-", "4", "2", "6", "6", "1", "4", "1", "7", "4", "0", "0", "0">> }

\* the five key types, one the tool does not know, and the empty string
KeyTypeInputs == {"cpf", "cnpj", "email", "phone", "random", "bitcoin", ""}

ReceivePixKey ==
  \E k \in PixKeyInputs, t \in KeyTypeInputs :
    Receive("validate_pix_key", [key |-> k, key_type |-> t])

\* validatePixKey throws: key.replace, for the key types that strip the key
PixKeyThrows == ~Has("key") /\ Has("key_type") /\ args.key_type \in {"cpf", "cnpj", "phone"}

\* validatePixKey of an undefined key that a type tests with its pattern:
\* the pattern is tested on the string 'undefined' and fails
PixKeyUntested(keyType) ==
  PixKeyResult(Undefined, keyType, FALSE, Undefined,
               [type |-> IF keyType = "email" THEN "Email" ELSE "Random Key (UUID)"])

ValidatePixKey ==
  Finish("validate_pix_key",
         IF PixKeyThrows THEN ErrorResult(CannotRead("replace"))
         ELSE IF ~Has("key_type")
         THEN ErrorResult("Invalid key type. Must be: cpf, cnpj, email, phone, or random")
         ELSE IF ~Has("key") /\ args.key_type \in {"email", "random"}
         THEN PixKeyUntested(args.key_type)
         ELSE validatePixKey(StringArg("key"), args.key_type))

PixKeyNext == ReceivePixKey \/ ValidatePixKey \/ Return

PixKeySpec == Init /\ [][PixKeyNext]_vars

(***************************************************************************)
(* The operations that look something up: the call issues its requests and *)
(* waits (Start...), the responses arrive one by one in any order          *)
(* (...Responds), and when all have arrived the call goes on to its result *)
(* (Complete...).                                                          *)
(***************************************************************************)
NoReply == [none |-> TRUE]

StartCall(t, requests, immediate) ==
  /\ pc = "running"
  /\ tool = t
  /\ ArgumentsGiven
  /\ IF requests = <<>>
     THEN /\ pc' = "done"
          /\ result' = immediate
          /\ response' = TextResponse(immediate)
          /\ UNCHANGED <<sent, replies>>
     ELSE /\ pc' = "waiting"
          /\ sent' = requests
          /\ replies' = [i \in DOMAIN requests |-> NoReply]
          /\ UNCHANGED <<result, response>>
  /\ UNCHANGED <<tool, args>>

Responds(url, responses) ==
  /\ pc = "waiting"
  /\ \E i \in DOMAIN sent, r \in responses :
       /\ sent[i].url = url
       /\ replies[i] = NoReply
       /\ replies' = [replies EXCEPT ![i] = r]
  /\ UNCHANGED <<pc, tool, args, result, sent, response>>

AllReplied == \A i \in DOMAIN replies : replies[i] # NoReply

CompleteCall(t, r) ==
  /\ pc = "waiting"
  /\ tool = t
  /\ AllReplied
  /\ pc' = "done"
  /\ result' = r
  /\ response' = TextResponse(r)
  /\ UNCHANGED <<tool, args, sent, replies>>

\* what the registry may answer: no answer in time, too many requests, an
\* error status with and without a message, and the data of a company
CompanyData ==
  { [ status |-> "OK", message |-> "", nome |-> "ACME COMERCIO LTDA", fantasia |-> f,
      situacao |-> "ATIVA", porte |-> p, simples |-> sn, simei |-> mei ] :
      f \in {"", "ACME"}, p \in {"ME", "DEMAIS"}, sn \in BOOLEAN, mei \in BOOLEAN }

RegistryResponses ==
  { Failed(0, "timeout of 10000ms exceeded"),
    Failed(429, "Request failed with status code 429"),
    Failed(500, ""),
    Answered([status |-> "ERROR", message |-> "CNPJ rejeitado pela Receita Federal"]),
    Answered([status |-> "ERROR", message |-> ""]) }
    \cup { Answered(d) : d \in CompanyData }

LookupCNPJInputs ==
  {
    \* '11.222.333/0001-81'
    <<"1", "1", ".", "2", "2", "2", ".", "3", "3", "3", "/", "0", "0", "0", "1", "-", "8", "1">>,
    \* '11222333000181'
    <<"1", "1", "2", "2", "2", "3", "3", "3", "0", "0", "0", "1", "8", "1">>,
    \* '11222333000182'
    <<"1", "1", "2", "2", "2", "3", "3", "3", "0", "0", "0", "1", "8", "2">>,
    \* '1122233300018'
    <<"1", "1", "2", "2", "2", "3", "3", "3", "0", "0", "0", "1", "8">>,
    \* '00000000000000'
    <<"0", "0", "0", "0", "0", "0", "0", "0", "0", "0", "0", "0", "0", "0">>,
    \* ''
    <<>> }

ReceiveLookupCNPJ == \E c \in LookupCNPJInputs : Receive("lookup_cnpj", [cnpj |-> c])

\* the requests of a lookupCNPJ call: none when cnpjInput.replace throws
CNPJRequests == IF Has("cnpj") THEN LookupCNPJRequests(args.cnpj) ELSE <<>>

\* the result of lookupCNPJ(args.cnpj)
LookupCNPJOf(responses) ==
  IF Has("cnpj") THEN lookupCNPJ(args.cnpj, responses) ELSE ErrorResult(CannotRead("replace"))

StartLookupCNPJ == StartCall("lookup_cnpj", CNPJRequests, LookupCNPJOf(<<>>))

CompleteLookupCNPJ == CompleteCall("lookup_cnpj", LookupCNPJOf(replies))

ReceiveCheckSimples ==
  \E c \in LookupCNPJInputs : Receive("check_simples_nacional", [cnpj |-> c])

StartCheckSimples ==
  StartCall("check_simples_nacional", CNPJRequests, SimplesOn(LookupCNPJOf(<<>>)))

CompleteCheckSimples == CompleteCall("check_simples_nacional", SimplesOn(LookupCNPJOf(replies)))

RegistryResponds == Responds(receitaWSUrl, RegistryResponses)

BusinessNext ==
  \/ ReceiveLookupCNPJ \/ StartLookupCNPJ \/ CompleteLookupCNPJ
  \/ ReceiveCheckSimples \/ StartCheckSimples \/ CompleteCheckSimples
  \/ RegistryResponds
  \/ Return

BusinessSpec == Init /\ [][BusinessNext]_vars

\* what the postal service may answer: no answer, a refusal, an unknown CEP
\* and two addresses
ViaCepResponses ==
  { Failed(0, "Network Error"),
    Failed(400, "Request failed with status code 400"),
    Answered([erro |-> TRUE]),
    Answered([ erro |-> FALSE, cep |-> "01310-100", logradouro |-> "Avenida Paulista",
               bairro |-> "Bela Vista", localidade |-> "São Paulo", uf |-> "SP" ]),
    Answered([ erro |-> FALSE, cep |-> "20040-020", logradouro |-> "Avenida Rio Branco",
               bairro |-> "Centro", localidade |-> "Rio de Janeiro", uf |-> "RJ" ]) }

CepInputs ==
  {
    \* '01310-100'
    <<"0", "1", "3", "1", "0", "-", "1", "0", "0">>,
    \* '01310100'
    <<"0", "1", "3", "1", "0", "1", "0", "0">>,
    \* '01310150'
    <<"0", "1", "3", "1", "0", "1", "5", "0">>,
    \* '01310149'
    <<"0", "1", "3", "1", "0", "1", "4", "9">>,
    \* '20040020'
    <<"2", "0", "0", "4", "0", "0", "2", "0">>,
    \* '99999999'
    <<"9", "9", "9", "9", "9", "9", "9", "9">>,
    \* '0131010'
    <<"0", "1", "3", "1", "0", "1", "0">>,
    \* ''
    <<>> }

ReceiveLookupCEP == \E c \in CepInputs : Receive("lookup_cep", [cep |-> c])

\* the requests of a lookupCEP call: none when cepInput.replace throws
CepRequests(name) == IF Has(name) THEN LookupCEPRequests(args[name]) ELSE <<>>

\* the result of lookupCEP(args.cep)
LookupCEPOf(responses) ==
  IF Has("cep") THEN lookupCEP(args.cep, responses) ELSE ErrorResult(CannotRead("replace"))

StartLookupCEP == StartCall("lookup_cep", CepRequests("cep"), LookupCEPOf(<<>>))

CompleteLookupCEP == CompleteCall("lookup_cep", LookupCEPOf(replies))

ReceiveValidateCEP == \E c \in CepInputs : Receive("validate_cep", [cep |-> c])

ValidateCEP ==
  Finish("validate_cep",
         IF Has("cep") THEN validateCEP(args.cep) ELSE Invalid(CannotRead("replace")))

ReceiveDistance ==
  \E c1 \in CepInputs, c2 \in CepInputs :
    Receive("calculate_distance", [cep1 |-> c1, cep2 |-> c2])

\* the result of calculateDistance(args.cep1, args.cep2): a lookupCEP call of
\* undefined returns its error, and the other call is awaited all the same
DistanceOf(responses) ==
  IF Has("cep1") /\ Has("cep2") THEN calculateDistance(args.cep1, args.cep2, responses)
  ELSE ErrorResult("Failed to lookup one or both CEPs")

StartDistance ==
  StartCall("calculate_distance", CepRequests("cep1") \o CepRequests("cep2"), DistanceOf(<<>>))

CompleteDistance == CompleteCall("calculate_distance", DistanceOf(replies))

ViaCepResponds == Responds(viaCepUrl, ViaCepResponses)

DistanceNext == ReceiveDistance \/ StartDistance \/ CompleteDistance \/ ViaCepResponds \/ Return

DistanceSpec == Init /\ [][DistanceNext]_vars

AddressNext ==
  \/ ReceiveLookupCEP \/ StartLookupCEP \/ CompleteLookupCEP
  \/ ReceiveValidateCEP \/ ValidateCEP
  \/ ReceiveDistance \/ StartDistance \/ CompleteDistance
  \/ ViaCepResponds
  \/ Return

AddressSpec == Init /\ [][AddressNext]_vars

(***************************************************************************)
(* Requests as a client may send them: any tool name, a bag holding any    *)
(* part of the tool's arguments, or no bag at all.                         *)
(***************************************************************************)
\* the cases of the handler's switch
ToolNames ==
  { "validate_cpf", "validate_cnpj", "validate_pis", "validate_voter_id",
    "lookup_cep", "validate_cep", "calculate_distance",
    "generate_pix_qr", "validate_pix_key", "generate_boleto",
    "lookup_cnpj", "check_simples_nacional",
    "calculate_income_tax", "calculate_inss", "calculate_fgts",
    "calculate_vacation", "calculate_13th_salary" }

\* names the switch has no case for
UnknownToolNames == {"validate_rg", "calculate_iss", ""}

\* the property of args the case of a tool reads first
FirstArgument(t) ==
  CASE t = "validate_cpf" -> "cpf"
    [] t \in {"validate_cnpj", "lookup_cnpj", "check_simples_nacional"} -> "cnpj"
    [] t = "validate_pis" -> "pis"
    [] t = "validate_voter_id" -> "voter_id"
    [] t \in {"lookup_cep", "validate_cep"} -> "cep"
    [] t = "calculate_distance" -> "cep1"
    [] t \in {"generate_pix_qr", "validate_pix_key"} -> "key"
    [] t = "generate_boleto" -> "bank_code"
    [] t = "calculate_income_tax" -> "monthly_income"
    [] OTHER -> "salary"

\* '01310-100' and '20040-020'
SampleCep1 == <<"0", "1", "3", "1", "0", "-", "1", "0", "0">>

SampleCep2 == <<"2", "0", "0", "4", "0", "-", "0", "2", "0">>

\* '11.222.333/0001-81'
SampleCNPJ ==
  <<"1", "1", ".", "2", "2", "2", ".", "3", "3", "3", "/", "0", "0", "0", "1", "-", "8", "1">>

\* bags that carry every argument of a tool
SampleArgs(t) ==
  CASE t = "validate_cpf" ->
         { [cpf |-> <<"5", "2", "9", ".", "9", "8", "2", ".", "2", "4", "7", "-", "2", "5">>] }
    [] t \in {"validate_cnpj", "lookup_cnpj", "check_simples_nacional"} ->
         { [cnpj |-> SampleCNPJ] }
    [] t = "validate_pis" -> { [pis |-> DigitsOf(12345678, 8) \o DigitsOf(919, 3)] }
    [] t = "validate_voter_id" -> { [voter_id |-> DigitsOf(123456, 6) \o DigitsOf(780191, 6)] }
    [] t \in {"lookup_cep", "validate_cep"} -> { [cep |-> SampleCep1] }
    [] t = "calculate_distance" -> { [cep1 |-> SampleCep1, cep2 |-> SampleCep2] }
    [] t = "generate_pix_qr" ->
         { [ key |-> <<"a", "@", "b", ".", "c">>, amount |-> a,
             receiver_name |-> <<"A", "n", "a">>, city |-> <<"R", "i", "o">>,
             description |-> <<"x">> ] : a \in {DFrom(15075, 2), DFrom(0, 0)} }
    [] t = "validate_pix_key" ->
         { [key |-> <<"a", "@", "b", ".", "c">>, key_type |-> ty] :
             ty \in {"cpf", "email", "random", "phone"} }
    [] t = "generate_boleto" ->
         { [ bank_code |-> b, amount |-> a, due_date |-> DateOf(2025, 2, 21, 0),
             document_number |-> <<"1", "2", "3", "4", "5">> ] :
             b \in {<<"3", "4", "1">>, <<"3", "4">>}, a \in {DFrom(15075, 2), DFrom(0, 0)} }
    [] t = "calculate_income_tax" -> { [monthly_income |-> Cents(500000), dependents |-> 1] }
    [] t = "calculate_inss" -> { [salary |-> Cents(300000), type |-> "employee"] }
    [] t = "calculate_fgts" -> { [salary |-> Cents(300000)] }
    [] t = "calculate_vacation" -> { [salary |-> Cents(300000), days |-> 20, sell_days |-> 10] }
    [] OTHER -> { [salary |-> Cents(300000), months_worked |-> 6] }

\* the part of a bag that carries the given arguments only
Only(bag, names) == [n \in names |-> bag[n]]

\* a known tool with any part of its arguments
ReceiveCall ==
  \E t \in ToolNames : \E bag \in SampleArgs(t) : \E names \in SUBSET (DOMAIN bag) :
    Receive(t, Only(bag, names))

\* any tool without an arguments object
ReceiveWithoutArguments == \E t \in ToolNames \cup UnknownToolNames : Receive(t, NoArguments)

\* a tool the switch does not know, with a bag
ReceiveUnknownTool == \E t \in UnknownToolNames : Receive(t, [cpf |-> SampleCNPJ])

\* error.message of what the switch throws before any service is called:
\* the default case's Error, or the TypeError of reading a property of an
\* undefined args
DispatchError(name) ==
  IF name \notin ToolNames THEN "Unknown tool: " \o name
  ELSE CannotRead(FirstArgument(name))

\* the handler's catch
DispatchFails ==
  /\ pc = "running"
  /\ tool \notin ToolNames \/ ~ArgumentsGiven
  /\ pc' = "done"
  /\ response' = ErrorResponse(DispatchError(tool), tool)
  /\ UNCHANGED <<tool, args, result, sent, replies>>

DispatchNext ==
  \/ ReceiveCall \/ ReceiveWithoutArguments \/ ReceiveUnknownTool
  \/ ValidateCPF \/ ValidateCNPJ \/ ValidatePIS \/ ValidateVoterID
  \/ StartLookupCEP \/ CompleteLookupCEP \/ ValidateCEP
  \/ StartDistance \/ CompleteDistance \/ ViaCepResponds
  \/ GeneratePixQR \/ ValidatePixKey \/ GenerateBoleto
  \/ StartLookupCNPJ \/ CompleteLookupCNPJ
  \/ StartCheckSimples \/ CompleteCheckSimples \/ RegistryResponds
  \/ CalculateIncomeTax \/ CalculateINSS \/ CalculateFGTS
  \/ CalculateVacation \/ Calculate13thSalary
  \/ DispatchFails
  \/ Return

DispatchSpec == Init /\ [][DispatchNext]_vars

PISNext == ReceivePIS \/ ValidatePIS \/ Return

PISSpec == Init /\ [][PISNext]_vars

VoterNext == ReceiveVoterID \/ ValidateVoterID \/ Return

VoterSpec == Init /\ [][VoterNext]_vars

DocumentNext ==
  \/ ReceiveCPF \/ ValidateCPF
  \/ ReceiveCNPJ \/ ValidateCNPJ
  \/ ReceivePIS \/ ValidatePIS
  \/ ReceiveVoterID \/ ValidateVoterID
  \/ Return

DocumentSpec == Init /\ [][DocumentNext]_vars

\* one operation at a time, for the properties of that operation alone
IncomeTaxNext == ReceiveIncomeTax \/ CalculateIncomeTax \/ Return

IncomeTaxSpec == Init /\ [][IncomeTaxNext]_vars

INSSNext == ReceiveINSS \/ CalculateINSS \/ Return

INSSSpec == Init /\ [][INSSNext]_vars

VacationNext == ReceiveVacation \/ CalculateVacation \/ Return

VacationSpec == Init /\ [][VacationNext]_vars

ThirteenthNext == Receive13thSalary \/ Calculate13thSalary \/ Return

ThirteenthSpec == Init /\ [][ThirteenthNext]_vars

TaxNext ==
  \/ ReceiveIncomeTax \/ CalculateIncomeTax
  \/ ReceiveINSS \/ CalculateINSS
  \/ ReceiveFGTS \/ CalculateFGTS
  \/ ReceiveVacation \/ CalculateVacation
  \/ Receive13thSalary \/ Calculate13thSalary
  \/ Return

TaxSpec == Init /\ [][TaxNext]_vars

Next ==
  \/ ReceiveIncomeTax \/ CalculateIncomeTax
  \/ ReceiveINSS \/ CalculateINSS
  \/ ReceiveFGTS \/ CalculateFGTS
  \/ ReceiveVacation \/ CalculateVacation
  \/ Receive13thSalary \/ Calculate13thSalary
  \/ ReceiveBoleto \/ GenerateBoleto
  \/ ReceivePixQR \/ GeneratePixQR
  \/ ReceivePixKey \/ ValidatePixKey
  \/ ReceiveCPF \/ ValidateCPF
  \/ ReceiveCNPJ \/ ValidateCNPJ
  \/ ReceivePIS \/ ValidatePIS
  \/ ReceiveVoterID \/ ValidateVoterID
  \/ ReceiveLookupCEP \/ StartLookupCEP \/ CompleteLookupCEP
  \/ ReceiveValidateCEP \/ ValidateCEP
  \/ ReceiveDistance \/ StartDistance \/ CompleteDistance
  \/ ViaCepResponds
  \/ ReceiveLookupCNPJ \/ StartLookupCNPJ \/ CompleteLookupCNPJ
  \/ ReceiveCheckSimples \/ StartCheckSimples \/ CompleteCheckSimples
  \/ RegistryResponds
  \/ Return
  \/ ReceiveCall \/ ReceiveWithoutArguments \/ ReceiveUnknownTool \/ DispatchFails

Spec == Init /\ [][Next]_vars

(***************************************************************************)
(* Properties of the payroll operations.                                   *)
(***************************************************************************)
Done(t) == pc = "done" /\ tool = t

\* the taxable income of an income-tax request
TaxableOf(a) == DMinus(a.monthly_income, DTimes(Cents(18959), DInt(a.dependents)))

\* the brackets of the IRPF table that hold t
Holding(t) == { j \in 1..Len(IRPFBrackets) : InBracket(t, IRPFBrackets[j]) }

\* the bracket the IRPF table assigns by upper bounds alone
TableBracket(t) ==
  IF DLte(t, Cents(211200)) THEN 1
  ELSE IF DLte(t, Cents(282665)) THEN 2
  ELSE IF DLte(t, Cents(375105)) THEN 3
  ELSE IF DLte(t, Cents(466468)) THEN 4
  ELSE 5

\* the INSS contribution by marginal accumulation over brackets 1..i: each
\* bracket the salary reaches taxes min(salary, max) - previous max at its rate
RECURSIVE MarginalSum(_, _)
MarginalSum(salary, i) ==
  IF i = 0 THEN DZero
  ELSE IF DGte(salary, INSSBrackets[i].min)
  THEN DPlus(MarginalSum(salary, i - 1),
             DTimes(DMinus(DMin(salary, INSSBrackets[i].max),
                           IF i = 1 THEN DZero ELSE INSSBrackets[i - 1].max),
                    INSSBrackets[i].rate))
  ELSE MarginalSum(salary, i - 1)

\* C1: for type 'employee' the INSS contribution is the marginal sum over the
\* four brackets, rate x (min(salary, bracket max) - previous bracket max) for
\* every bracket the salary reaches; a salary above the ceiling contributes what
\* 7786.02 does; salary 3000 gives 1412 x 0.075 + 1254.68 x 0.09 + 333.32 x 0.12
C1_MarginalAccumulation ==
  (Done("calculate_inss") /\ args.type = "employee") =>
    /\ result.inss_contribution = ToNumber(MarginalSum(args.salary, Len(INSSBrackets)))
    /\ DGt(args.salary, SalaryCeiling) =>
         result.inss_contribution = ToNumber(MarginalSum(SalaryCeiling, Len(INSSBrackets)))
    /\ args.salary = Cents(300000) =>
         result.inss_contribution =
           ToNumber(DPlus(DPlus(DTimes(Cents(141200), Rate(75)),
                                DTimes(DMinus(Cents(266668), Cents(141200)), Rate(90))),
                          DTimes(DMinus(Cents(300000), Cents(266668)), Rate(120))))

\* C2: income tax is a single-bracket lookup: taxable = gross - 189.59 x
\* dependents; a taxable income at a bracket's upper bound is taxed in that
\* bracket (2112.00 gives tax 0) and one cent more in the next; the result
\* names the one bracket holding the taxable income, tax = taxable x rate -
\* deduction of that bracket (0 in the bottom bracket), net = gross - tax
C2_SingleBracketLookup ==
  Done("calculate_income_tax") =>
    LET t == TaxableOf(args)
        b == IRPFBrackets[result.bracket]
    IN  /\ (\E e \in IRPFEdges : t = Cents(e) \/ t = Cents(e + 1)) => ~IsError(result)
        /\ t = Cents(211200) => result.income_tax = DZero
        /\ ~IsError(result) =>
             /\ result.taxable_income = ToNumber(t)
             /\ Holding(t) = {result.bracket}
             /\ result.bracket = TableBracket(t)
             /\ result.income_tax =
                  ToNumber(IF result.bracket = 1 THEN DZero
                           ELSE DMinus(DTimes(t, b.rate), b.deduction))
             /\ result.net_income =
                  ToNumber(DMinus(args.monthly_income,
                                  IF result.bracket = 1 THEN DZero
                                  ELSE DMinus(DTimes(t, b.rate), b.deduction)))

\* C2's case: a taxable income of exactly 2826.65 (3016.24 with one dependent)
\* was taxed in the second bracket, 2826.65 x 0.075 - 158.40
C2_Witness ==
  /\ Done("calculate_income_tax")
  /\ args.monthly_income = Cents(282665 + 18959)
  /\ args.dependents = 1
  /\ ~IsError(result)
  /\ result.bracket = 2
  /\ result.income_tax = DFrom(5359875, 5)

\* C3: the five IRPF brackets cover [0, infinity) without gap or overlap: every
\* taxable income >= 0, whole cents or not, lies in exactly one bracket and gets
\* a tax result, never the 'Could not determine tax bracket' error
C3_BracketsCover ==
  (Done("calculate_income_tax") /\ DGte(TaxableOf(args), DZero)) =>
    /\ Cardinality(Holding(TaxableOf(args))) = 1
    /\ ~IsError(result)

\* the vacation gross of a request: daily rate x days, a third of it, daily
\* rate x sold days, a third of that
VacationGrossOf(a) ==
  LET dailyRate == DDivInt(a.salary, 30)
      pay       == DTimes(dailyRate, DInt(a.days))
      sold      == DTimes(dailyRate, DInt(a.sell_days))
  IN  DPlus(DPlus(DPlus(pay, DDivInt(pay, 3)), sold), DDivInt(sold, 3))

\* C4: for days in [0,30] and sell_days in [0,10] the vacation gross is the sum
\* of the four parts, the deductions are the INSS contribution and the income
\* tax that calculate_inss and calculate_income_tax return for that gross, and
\* net = gross - (INSS + IRPF)
C4_VacationOnGross ==
  (Done("calculate_vacation") /\ args.days \in 0..30 /\ args.sell_days \in 0..10) =>
    LET gross == VacationGrossOf(args)
        inss  == calculateINSS(ToNumber(gross), "employee")
        irpf  == calculateIncomeTax(ToNumber(gross), 0)
    IN  /\ ~IsError(result)
        /\ result.total_vacation_amount = ToNumber(gross)
        /\ ~IsError(inss) /\ result.inss_on_vacation = inss.inss_contribution
        /\ ~IsError(irpf) /\ result.irpf_on_vacation = irpf.income_tax
        /\ result.net_payment =
             ToNumber(DMinus(gross, DPlus(result.inss_on_vacation, result.irpf_on_vacation)))

\* C5: for months_worked in [0,12] the proportional 13th salary is salary x
\* months / 12, split into two equal installments; INSS and IRPF are those of
\* the full proportional amount and come off the second installment only; the
\* first has deductions 0 and net equal to its amount; total_net =
\* proportional - (INSS + IRPF)
C5_ThirteenthInstallments ==
  (Done("calculate_13th_salary") /\ args.months_worked \in 0..12) =>
    LET prop == DDivInt(DTimes(args.salary, DInt(args.months_worked)), 12)
        inss == calculateINSS(ToNumber(prop), "employee")
        irpf == calculateIncomeTax(ToNumber(prop), 0)
    IN  /\ ~IsError(result)
        /\ result.gross_13th = ToNumber(prop)
        /\ result.first_installment.amount = ToNumber(DDivInt(prop, 2))
        /\ result.second_installment.gross = result.first_installment.amount
        /\ result.first_installment.deductions = DZero
        /\ result.first_installment.net = result.first_installment.amount
        /\ ~IsError(inss) /\ result.inss_13th = inss.inss_contribution
        /\ ~IsError(irpf) /\ result.irpf_13th = irpf.income_tax
        /\ result.second_installment.net =
             ToNumber(DMinus(DDivInt(prop, 2), DPlus(result.inss_13th, result.irpf_13th)))
        /\ result.total_net =
             ToNumber(DMinus(prop, DPlus(result.inss_13th, result.irpf_13th)))

\* the currency fields of each operation's result
CurrencyFields(t) ==
  CASE t = "calculate_income_tax" ->
         {"income_tax", "net_income", "annual_tax", "annual_net"}
    [] t = "calculate_inss" ->
         {"inss_contribution", "net_salary", "annual_contribution"}
    [] t = "calculate_fgts" ->
         {"fgts_deposit", "monthly_deposit", "annual_deposit", "fine_on_dismissal"}
    [] t = "calculate_vacation" ->
         {"vacation_pay", "constitutional_third", "sold_vacation_pay", "inss_on_vacation",
          "irpf_on_vacation", "total_vacation_amount", "net_vacation_amount", "net_payment"}
    [] t = "calculate_13th_salary" ->
         {"gross_13th", "inss_13th", "irpf_13th", "net_13th", "total_gross",
          "total_deductions", "total_net"}

\* C6: every currency field the five payroll operations return is rounded to
\* 2 decimal places: no returned amount has more than two fractional digits
C6_TwoDecimals ==
  (pc = "done" /\ ~IsError(result)) =>
    \A f \in CurrencyFields(tool) : DecimalPlaces(result[f]) <= 2

(***************************************************************************)
(* Properties of the boleto and PIX codecs.                                *)
(***************************************************************************)
AllDigits(str) == \A i \in 1..Len(str) : IsDigitChar(str[i])

\* whole days from 1997-10-07 to the due date
DueDateFactor(date) ==
  DaysFromCivil(date.year, date.month, date.day) - DaysFromCivil(1997, 10, 7)

\* the document number left-padded with zeros and cut to 25 characters
FreeField(doc) == SubSeq(padStart(doc, 25, "0"), 1, 25)

\* C7: for every accepted input the barcode is exactly 44 decimal digits:
\* bank code (3), currency 9 (1), check digit (1), due date factor (4, the
\* whole days from 1997-10-07 to the due date), amount in cents zero-padded
\* (10), free field (25, the document number zero-padded and cut)
C7_BarcodeLayout ==
  (Done("generate_boleto") /\ ~IsError(result)) =>
    /\ Len(result.barcode) = 44
    /\ AllDigits(result.barcode)
    /\ SubSeq(result.barcode, 1, 3) = args.bank_code
    /\ result.barcode[4] = "9"
    /\ SubSeq(result.barcode, 6, 9) = padStart(IntToString(DueDateFactor(args.due_date)), 4, "0")
    /\ SubSeq(result.barcode, 10, 19) = padStart(NToString(RoundedCents(args.amount)), 10, "0")
    /\ SubSeq(result.barcode, 20, 44) = FreeField(args.document_number)

\* the sum of the digits of str, read right to left from its k-th last
\* character on, times the multipliers 2..9 repeating
RECURSIVE Mod11Sum(_, _)
Mod11Sum(str, k) ==
  IF k > Len(str) THEN 0
  ELSE DigitValue(str[Len(str) + 1 - k]) * (2 + ((k - 1) % 8)) + Mod11Sum(str, k + 1)

\* 11 - (weighted sum mod 11)
Mod11Raw(str) == 11 - (Mod11Sum(str, 1) % 11)

\* C8: the check digit is 11 - (weighted sum of the other barcode digits mod
\* 11), multipliers 2..9 repeating from the right, with 0, 10 and 11 emitted
\* as 1; it is always one digit in 1..9 and is the 5th character
C8_CheckDigit ==
  (Done("generate_boleto") /\ ~IsError(result)) =>
    LET rest == SubSeq(result.barcode, 1, 4) \o SubSeq(result.barcode, 6, Len(result.barcode))
    IN  /\ result.barcode[5] \in { DigitChars[d + 1] : d \in 1..9 }
        /\ AllDigits(rest) =>
             result.barcode[5] =
               (IF Mod11Raw(rest) \in {0, 10, 11} THEN "1" ELSE DigitChars[Mod11Raw(rest) + 1])

\* the UTF-8 byte length of a string (no surrogate pairs occur)
RECURSIVE ByteLength(_)
ByteLength(str) ==
  IF str = <<>> THEN 0
  ELSE (IF charCodeAt(Head(str)) < 128 THEN 1
        ELSE IF charCodeAt(Head(str)) < 2048 THEN 2 ELSE 3) + ByteLength(Tail(str))

\* a field: tag, length in exactly two decimal digits, value
TLV(tag, value) == tag \o padStart(IntToString(ByteLength(value)), 2, "0") \o value

\* the merchant account template: GUI, key and, when given, description
MerchantTemplate(a) ==
  TLV(<<"0", "0">>, <<"b", "r", ".", "g", "o", "v", ".", "b", "c", "b", ".", "p", "i", "x">>)
    \o TLV(<<"0", "1">>, a.key)
    \o (IF a.description = <<>> THEN <<>> ELSE TLV(<<"0", "2">>, a.description))

\* the amount as the payload writes it; nothing for a request without amount
AmountText(a) == IF IsNumber(a.amount) THEN toFixed2(a.amount) ELSE <<>>

\* C9: every field of the payload, the merchant-account sub-fields and
\* template included, is tag, a length of exactly 2 decimal digits equal to
\* the byte length of the value, then the value, in the order 00, 26 (GUI,
\* key, description), 52, 53, 54, 58, 59, 60, 62, 63
C9_TagLengthValue ==
  (Done("generate_pix_qr") /\ ~IsError(result)) =>
    /\ \A v \in {args.key, args.description, MerchantTemplate(args), args.receiver_name,
                 args.city, AmountText(args)} : ByteLength(v) <= 99
    /\ SubSeq(result.payload, 1, Len(result.payload) - 4) =
         TLV(<<"0", "0">>, <<"0", "1">>)
           \o TLV(<<"2", "6">>, MerchantTemplate(args))
           \o TLV(<<"5", "2">>, <<"0", "0", "0", "0">>)
           \o TLV(<<"5", "3">>, <<"9", "8", "6">>)
           \o (IF IsNumber(args.amount) THEN TLV(<<"5", "4">>, AmountText(args)) ELSE <<>>)
           \o TLV(<<"5", "8">>, <<"B", "R">>)
           \o TLV(<<"5", "9">>, args.receiver_name)
           \o TLV(<<"6", "0">>, args.city)
           \o TLV(<<"6", "2">>, <<"0", "5", "0", "3", "*", "*", "*">>)
           \o <<"6", "3", "0", "4">>

\* CRC16/CCITT-FALSE with a 16-bit register: one shift of the register r
RefShift(r) ==
  IF r >= 32768 THEN BitXor((r * 2) % 65536, 4129) ELSE (r * 2) % 65536

RECURSIVE RefBits(_, _)
RefBits(r, j) == IF j = 8 THEN r ELSE RefBits(RefShift(r), j + 1)

\* the register after str[from..to], starting from r
RECURSIVE RefCRC(_, _, _, _)
RefCRC(str, from, to, r) ==
  IF r < 0 \/ from > to THEN r
  ELSE IF from = to
  THEN RefBits(BitXor(r, (charCodeAt(str[from]) * 256) % 65536), 0)
  ELSE RefCRC(str, ((from + to) \div 2) + 1, to, RefCRC(str, from, (from + to) \div 2, r))

\* a 16-bit value as 4 uppercase hexadecimal digits
Hex4(r) ==
  << HexChars[(r \div 4096) + 1], HexChars[((r \div 256) % 16) + 1],
     HexChars[((r \div 16) % 16) + 1], HexChars[(r % 16) + 1] >>

\* the payload without its last four characters
PixBody(payload) == SubSeq(payload, 1, Len(payload) - 4)

\* C10: the last four characters of the payload are the CRC16/CCITT-FALSE
\* (polynomial 0x1021, initial value 0xFFFF) of everything before them, up to
\* and including '6304', as 4 uppercase hexadecimal digits; the unmasked
\* implementation agrees with the 16-bit-register reference
C10_CRC16 ==
  (Done("generate_pix_qr") /\ ~IsError(result)) =>
    /\ Len(result.payload) >= 8
    /\ SubSeq(result.payload, Len(result.payload) - 7, Len(result.payload) - 4)
         = <<"6", "3", "0", "4">>
    /\ SubSeq(result.payload, Len(result.payload) - 3, Len(result.payload))
         = Hex4(RefCRC(PixBody(result.payload), 1, Len(PixBody(result.payload)), 65535))
    /\ calculateCRC16(PixBody(result.payload))
         = Hex4(RefCRC(PixBody(result.payload), 1, Len(PixBody(result.payload)), 65535))

\* C10's case: a payload holding a character above 255 was summed, the
\* unmasked register overflowed 16 bits, and the checksum begins with a 0
C10_Witness ==
  /\ Done("generate_pix_qr")
  /\ ~IsError(result)
  /\ \E i \in 1..Len(result.payload) : result.payload[i] = "€"
  /\ CRCLoop(PixBody(result.payload), 1, Len(PixBody(result.payload)), Int32(0, 65535)).hi # 0
  /\ result.payload[Len(result.payload) - 3] = "0"

(***************************************************************************)
(* Properties of the document validators.                                  *)
(***************************************************************************)
DocumentTools == {"validate_cpf", "validate_cnpj", "validate_pis", "validate_voter_id"}

\* the text a document request carries
DocumentInput ==
  CASE tool = "validate_cpf" -> args.cpf
    [] tool = "validate_cnpj" -> args.cnpj
    [] tool = "validate_pis" -> args.pis
    [] tool = "validate_voter_id" -> args.voter_id

\* the decimal digits of a text, in order
OnlyDigits(str) ==
  SelectSeq(str, LAMBDA c : c \in {"0", "1", "2", "3", "4", "5", "6", "7", "8", "9"})

RequiredLength(t) ==
  CASE t = "validate_cpf" -> 11
    [] t = "validate_cnpj" -> 14
    [] t = "validate_pis" -> 11
    [] t = "validate_voter_id" -> 12

\* the number a digit character stands for
DigitNumber(c) == CHOOSE n \in 0..9 : IntToString(n) = <<c>>

\* d[1] x w[1] + ... + d[n] x w[n]
RECURSIVE Dot(_, _, _)
Dot(d, w, n) == IF n = 0 THEN 0 ELSE Dot(d, w, n - 1) + DigitNumber(d[n]) * w[n]

\* the modulo-11 check digit of a weighted sum: 0 below remainder 2
Mod11Digit(sum) == IF sum % 11 < 2 THEN 0 ELSE 11 - (sum % 11)

OneDigitRepeated(d) == \A i \in 1..Len(d) : d[i] = d[1]

\* CPF: two passes, weights 10..2 then 11..2; the validator refuses a
\* repeated digit and 12345678909 as well
CPFAccepts(d) ==
  /\ ~OneDigitRepeated(d)
  /\ d # <<"1", "2", "3", "4", "5", "6", "7", "8", "9", "0", "9">>
  /\ DigitNumber(d[10]) = Mod11Digit(Dot(d, <<10, 9, 8, 7, 6, 5, 4, 3, 2>>, 9))
  /\ DigitNumber(d[11]) = Mod11Digit(Dot(d, <<11, 10, 9, 8, 7, 6, 5, 4, 3, 2>>, 10))

\* CNPJ: two passes, weights 5,4,3,2,9..2 then 6,5,4,3,2,9..2; the validator
\* refuses a repeated digit as well
CNPJAccepts(d) ==
  /\ ~OneDigitRepeated(d)
  /\ DigitNumber(d[13]) = Mod11Digit(Dot(d, <<5, 4, 3, 2, 9, 8, 7, 6, 5, 4, 3, 2>>, 12))
  /\ DigitNumber(d[14]) = Mod11Digit(Dot(d, <<6, 5, 4, 3, 2, 9, 8, 7, 6, 5, 4, 3, 2>>, 13))

PISAccepts(d) ==
  DigitNumber(d[11]) = Mod11Digit(Dot(d, <<3, 2, 9, 8, 7, 6, 5, 4, 3, 2>>, 10))

\* the two chained modulo-11 digits of a Voter-ID's first ten digits
VoterFirst(d) == Dot(d, <<2, 3, 4, 5, 6, 7, 8, 9>>, 8) % 11

VoterSecond(d) ==
  ((10 * DigitNumber(d[9]) + DigitNumber(d[10])) * 15 + VoterFirst(d) * 9) % 11

VoterAccepts(d) ==
  /\ DigitNumber(d[11]) = VoterFirst(d)
  /\ DigitNumber(d[12]) = VoterSecond(d)

ChecksumAccepts(t, d) ==
  CASE t = "validate_cpf" -> CPFAccepts(d)
    [] t = "validate_cnpj" -> CNPJAccepts(d)
    [] t = "validate_pis" -> PISAccepts(d)
    [] t = "validate_voter_id" -> VoterAccepts(d)

VoterPairsAccepted(prefix) ==
  { c \in 0..99 : validateVoterID(prefix \o DigitsOf(c, 2)).valid }

\* C12: the two check digits of a Voter-ID are recomputable from its first 10
\* digits: digit 1 is the weighted sum of the 8 sequence digits modulo 11,
\* digit 2 the sum over state code and digit 1 modulo 11, each one decimal
\* digit; every 10-digit prefix has exactly one accepted pair of check digits
C12_VoterCheckDigits ==
  (Done("validate_voter_id") /\ Len(OnlyDigits(args.voter_id)) = 12) =>
    LET d == OnlyDigits(args.voter_id)
    IN  /\ VoterFirst(d) \in 0..9
        /\ VoterSecond(d) \in 0..9
        /\ result.valid = VoterAccepts(d)
        /\ VoterPairsAccepted(SubSeq(d, 1, 10))
             = {10 * VoterFirst(d) + VoterSecond(d)}

\* the PIS digits d with digit i replaced by the digit c
PISReplaced(d, i, c) == [d EXCEPT ![i] = DigitChars[c + 1]]

\* the single-digit replacements of an accepted PIS within its first 10 digits
PISReplacements(d) ==
  { <<i, c>> \in (1..10) \X (0..9) : DigitChars[c + 1] # d[i] }

PISRemainder(d) == Dot(d, <<3, 2, 9, 8, 7, 6, 5, 4, 3, 2>>, 10) % 11

\* C13 as stated: from any PIS validate_pis accepts, replacing any single one
\* of the first 10 digits by a different digit yields valid = false
C13_PISSingleDigit ==
  (Done("validate_pis") /\ result.valid) =>
    \A r \in PISReplacements(result.unformatted) :
      ~validatePIS(PISReplaced(result.unformatted, r[1], r[2])).valid

\* C13 amended: the replacement yields valid = false, except exactly where
\* the weighted sums before and after leave the remainders 0 and 1 modulo 11,
\* which both give the check digit 0
C13_PISSingleDigitAmended ==
  (Done("validate_pis") /\ result.valid) =>
    \A r \in PISReplacements(result.unformatted) :
      validatePIS(PISReplaced(result.unformatted, r[1], r[2])).valid
        = ({PISRemainder(result.unformatted),
            PISRemainder(PISReplaced(result.unformatted, r[1], r[2]))} = {0, 1})

\* C13's case: the PIS 000.00000.00-0 (remainder 0, check digit 0) was
\* accepted, and with its first digit replaced by 4 (remainder 1) it is
\* accepted again, while with it replaced by 1 (remainder 3) it is refused
C13_Witness ==
  /\ Done("validate_pis")
  /\ result.valid
  /\ result.unformatted = DigitsOf(0, 5) \o DigitsOf(0, 5) \o DigitsOf(0, 1)
  /\ validatePIS(PISReplaced(result.unformatted, 1, 4)).valid
  /\ ~validatePIS(PISReplaced(result.unformatted, 1, 1)).valid

(***************************************************************************)
(* Properties of the PIX amount, the brcode alias and the PIX keys.        *)
(***************************************************************************)
AmountGiven == args.amount # Undefined

\* C14: generate_pix_qr called with an amount <= 0 returns the error
\* {error: true, message} and no payload; it returns a payload only when
\* amount > 0
C14_InvalidAmount ==
  Done("generate_pix_qr") =>
    /\ (AmountGiven /\ DCmp(args.amount, DZero) <= 0) =>
         /\ result.error = TRUE
         /\ "message" \in DOMAIN result
         /\ "payload" \notin DOMAIN result
    /\ "payload" \in DOMAIN result => (AmountGiven /\ DCmp(args.amount, DZero) > 0)

\* what the payload holds after the currency field 5303986
AfterCurrency(payload, a) ==
  SubSeq(payload,
         Len(LengthOf(MerchantInfo(a.key, a.description)))
           + Len(MerchantInfo(a.key, a.description)) + 24,
         Len(payload))

StartsWith(str, prefix) ==
  Len(str) >= Len(prefix) /\ SubSeq(str, 1, Len(prefix)) = prefix

\* an amount text: digits, a point, exactly two digits
TwoDecimalText(v) ==
  /\ Len(v) >= 4
  /\ v[Len(v) - 2] = "."
  /\ \A i \in (1..Len(v)) \ {Len(v) - 2} : IsDigitChar(v[i])

\* the number an amount text denotes
TextAmount(v) ==
  DPlus(DMk(FALSE, NShl(NFromInt(ParseDigits(SubSeq(v, 1, Len(v) - 3), Len(v) - 3)), Scale)),
        DFrom(ParseDigits(SubSeq(v, Len(v) - 1, Len(v)), 2), 2))

\* the payload continues with field 54 holding text v, then the country field
HasAmountField(rest, v) ==
  StartsWith(rest, <<"5", "4">> \o padStart(IntToString(Len(v)), 2, "0") \o v
                     \o <<"5", "8", "0", "2", "B", "R">>)

\* C15: with the amount absent or zero the operation produces a payload
\* without the amount field (tag 54); with a positive amount the payload
\* holds tag 54 with the amount written with exactly 2 decimal digits
C15_AmountField ==
  Done("generate_pix_qr") =>
    /\ (~AmountGiven \/ args.amount = DZero) =>
         /\ ~IsError(result)
         /\ StartsWith(AfterCurrency(result.payload, args), <<"5", "8", "0", "2", "B", "R">>)
    /\ (AmountGiven /\ DCmp(args.amount, DZero) > 0) =>
         /\ ~IsError(result)
         /\ \E n \in 4..12 :
              LET v == SubSeq(AfterCurrency(result.payload, args), 5, 4 + n)
              IN  /\ TwoDecimalText(v)
                  /\ HasAmountField(AfterCurrency(result.payload, args), v)
                  /\ DecimalPlaces(args.amount) <= 2 => TextAmount(v) = args.amount

\* C16: in every successful generate_pix_qr result brcode, payload and
\* qr_code are the same string, character for character
C16_BrcodeIsPayload ==
  (Done("generate_pix_qr") /\ ~IsError(result)) =>
    /\ result.qr_code = result.payload
    /\ result.brcode = result.payload

(***************************************************************************)
(* Properties of validate_pix_key.                                         *)
(***************************************************************************)
\* the digits of the key of a phone request
PhoneDigits == OnlyDigits(args.key)

\* C17: for key_type phone the key is valid exactly when its digits are 13
\* long and start with 55, or are 11 long whatever they are; and a valid key
\* of 11 digits is returned as +55 followed by those digits
C17_PhoneKey ==
  (Done("validate_pix_key") /\ args.key_type = "phone") =>
    /\ ~IsError(result)
    /\ result.valid <=>
         \/ Len(PhoneDigits) = 13 /\ StartsWith(PhoneDigits, <<"5", "5">>)
         \/ Len(PhoneDigits) = 11
    /\ (result.valid /\ Len(PhoneDigits) = 11) =>
         result.key = <<"+", "5", "5">> \o PhoneDigits

\* PixKeyType
PixKeyType == {"cpf", "cnpj", "email", "phone", "random"}

\* C18: a key_type outside the five known ones gets the structured error
\* {error: true, message} and never a result with a valid field; each of the
\* five known ones gets a result whose can_receive_pix equals its valid
C18_KeyType ==
  Done("validate_pix_key") =>
    IF args.key_type \in PixKeyType
    THEN /\ ~IsError(result)
         /\ {"valid", "can_receive_pix"} \subseteq DOMAIN result
         /\ result.valid \in BOOLEAN
         /\ result.can_receive_pix = result.valid
    ELSE /\ DOMAIN result = {"error", "message"}
         /\ result.error = TRUE

\* C18: an unknown key type has been answered
C18_Witness ==
  /\ Done("validate_pix_key")
  /\ args.key_type = "bitcoin"
  /\ IsError(result)

(***************************************************************************)
(* Properties of the enumerated and formatted arguments.                   *)
(***************************************************************************)
\* the employment types of calculate_inss; a request without one means employee
EmploymentType == {"employee", "self-employed"}

\* C19: calculate_inss with a type that is neither employee nor
\* self-employed returns a structured error and computes no contribution
C19_UnknownEmploymentType ==
  (Done("calculate_inss") /\ args.type \notin EmploymentType \cup {""}) =>
    /\ IsError(result)
    /\ result.error = TRUE
    /\ "message" \in DOMAIN result

\* exactly three decimal digits
ThreeDigits(code) ==
  /\ Len(code) = 3
  /\ \A i \in 1..3 : code[i] \in {"0", "1", "2", "3", "4", "5", "6", "7", "8", "9"}

\* C20: generate_boleto with a bank_code that is not exactly three decimal
\* digits, by its length or by a character that is no digit, returns a
\* structured error and no barcode
C20_BankCode ==
  (Done("generate_boleto") /\ ~ThreeDigits(args.bank_code)) =>
    /\ IsError(result)
    /\ result.error = TRUE
    /\ "barcode" \notin DOMAIN result

(***************************************************************************)
(* Properties of the ranges, the failures and the defaults of the payroll  *)
(* operations.                                                             *)
(***************************************************************************)
\* exactly {error: true, message}
IsEnvelope(r) == DOMAIN r = {"error", "message"} /\ r.error = TRUE

\* C21: calculate_vacation with days outside 0..30 or sell_days outside
\* 0..10, and calculate_13th_salary with months_worked outside 0..12, return
\* {error: true, message} with no computed amount; every value inside the
\* ranges, 0 included, is accepted and computed
C21_Ranges ==
  /\ Done("calculate_vacation") =>
        IF args.days \in 0..30 /\ args.sell_days \in 0..10
        THEN ~IsError(result) /\ {"total_vacation_amount", "net_payment"} \subseteq DOMAIN result
        ELSE IsEnvelope(result)
  /\ Done("calculate_13th_salary") =>
        IF args.months_worked \in 0..12
        THEN ~IsError(result) /\ {"total_gross", "total_net"} \subseteq DOMAIN result
        ELSE IsEnvelope(result)

\* C21: a 13th salary of 0 months worked has been accepted and computed
C21_Witness ==
  /\ Done("calculate_13th_salary")
  /\ args.months_worked = 0
  /\ ~IsError(result)

(***************************************************************************)
(* Properties of the typeable line of generate_boleto.                     *)
(***************************************************************************)
\* a string without its dots
WithoutDots(str) == SelectSeq(str, LAMBDA c : c # ".")

\* C24: the typeable_line of a boleto is its 44-digit barcode cut into five
\* consecutive fields of widths 10, 11, 11, 1 and 11 joined by dots, and
\* removing the dots from it gives back the barcode
C24_TypeableLine ==
  (Done("generate_boleto") /\ ~IsError(result)) =>
    /\ Len(result.barcode) = 44
    /\ result.typeable_line =
         SubSeq(result.barcode, 1, 10) \o <<".">> \o SubSeq(result.barcode, 11, 21)
           \o <<".">> \o SubSeq(result.barcode, 22, 32) \o <<".">>
           \o SubSeq(result.barcode, 33, 33) \o <<".">> \o SubSeq(result.barcode, 34, 44)
    /\ WithoutDots(result.typeable_line) = result.barcode

\* the gross a vacation result was computed from
VacationGrossIn(r) ==
  VacationGrossOf([salary |-> args.salary, days |-> r.vacation_days, sell_days |-> r.sold_days])

\* the proportional amount a 13th salary result was computed from
ProportionalIn(r) == DDivInt(DTimes(args.salary, DInt(r.months_worked)), 12)

\* the deduction taken from a sub-calculation: its amount, or 0 if it failed
DeductionFrom(sub, field) == IF IsError(sub) THEN DZero ELSE sub[field]

\* a sub-calculation of the composite operation on this amount failed
SubCalculationFailed(amount) ==
  \/ IsError(calculateINSS(ToNumber(amount), "employee"))
  \/ IsError(calculateIncomeTax(ToNumber(amount), 0))

\* C25: when the calculate_income_tax or calculate_inss call inside
\* calculate_vacation or calculate_13th_salary returns an error, the composite
\* operation returns a normal result with 0 for that deduction and
\* net = gross - the remaining deductions
C25_SubErrorIsZero ==
  /\ (Done("calculate_vacation") /\ args.days \in 0..30 /\ args.sell_days \in 0..10) =>
        /\ ~IsError(result)
        /\ SubCalculationFailed(VacationGrossIn(result)) =>
             LET gross == VacationGrossIn(result)
                 inss  == DeductionFrom(calculateINSS(ToNumber(gross), "employee"),
                                        "inss_contribution")
                 irpf  == DeductionFrom(calculateIncomeTax(ToNumber(gross), 0), "income_tax")
             IN  /\ result.inss_on_vacation = inss
                 /\ result.irpf_on_vacation = irpf
                 /\ result.net_payment = ToNumber(DMinus(gross, DPlus(inss, irpf)))
  /\ (Done("calculate_13th_salary") /\ args.months_worked \in 0..12) =>
        /\ ~IsError(result)
        /\ SubCalculationFailed(ProportionalIn(result)) =>
             LET prop == ProportionalIn(result)
                 inss == DeductionFrom(calculateINSS(ToNumber(prop), "employee"),
                                       "inss_contribution")
                 irpf == DeductionFrom(calculateIncomeTax(ToNumber(prop), 0), "income_tax")
             IN  /\ result.inss_13th = inss
                 /\ result.irpf_13th = irpf
                 /\ result.total_net = ToNumber(DMinus(prop, DPlus(inss, irpf)))

\* C25: a vacation whose income-tax sub-calculation failed has been answered
C25_Witness ==
  /\ Done("calculate_vacation")
  /\ ~IsError(result)
  /\ IsError(calculateIncomeTax(ToNumber(VacationGrossIn(result)), 0))
  /\ result.irpf_on_vacation = DZero

\* C26: the dispatcher forwards the numbers it is given unchanged, 0
\* included: calculate_vacation with days = 0 computes a vacation of 0 days,
\* and calculate_13th_salary with months_worked = 0 computes a proportional
\* amount of 0 and is not eligible
C26_ExplicitZero ==
  /\ (Done("calculate_vacation") /\ ~IsError(result)) =>
        /\ result.vacation_days = args.days
        /\ result.sold_days = args.sell_days
        /\ args.days = 0 => result.vacation_pay = DZero
  /\ (Done("calculate_13th_salary") /\ ~IsError(result)) =>
        /\ result.months_worked = args.months_worked
        /\ args.months_worked = 0 => (result.gross_13th = DZero /\ ~result.eligible)

(***************************************************************************)
(* Bounds on the deductions.                                               *)
(***************************************************************************)
\* C27: for a salary >= 0 and months_worked in 0..12 the deductions of the
\* 13th salary never exceed half of the proportional amount: the net of the
\* second installment is never negative and total_net never exceeds
\* total_gross
C27_DeductionsWithinHalf ==
  (/\ Done("calculate_13th_salary")
   /\ DGte(args.salary, DZero)
   /\ args.months_worked \in 0..12) =>
    /\ ~IsError(result)
    /\ DLte(result.total_deductions, result.second_installment.gross)
    /\ DGte(result.second_installment.net, DZero)
    /\ DLte(result.total_net, result.total_gross)

\* C27: a 13th salary with deductions has been answered
C27_Witness ==
  /\ Done("calculate_13th_salary")
  /\ args.months_worked = 12
  /\ ~IsError(result)
  /\ DGt(result.total_deductions, DZero)
  /\ DGt(result.second_installment.net, DZero)

\* the result for an income one cent higher, without dependents
OneCentMore(income) == calculateIncomeTax(DPlus(income, Cents(1)), 0)

\* C28: on the cent grid and without dependents the income tax is never
\* negative, never drops when the income rises by one cent, bracket
\* boundaries included, and net_income never exceeds gross_income
C28_TaxMonotone ==
  (/\ Done("calculate_income_tax")
   /\ args.dependents = 0
   /\ DGte(args.monthly_income, DZero)
   /\ DecimalPlaces(args.monthly_income) <= 2) =>
    /\ ~IsError(result)
    /\ DGte(result.income_tax, DZero)
    /\ DLte(result.net_income, result.gross_income)
    /\ ~IsError(OneCentMore(args.monthly_income))
    /\ DLte(result.income_tax, OneCentMore(args.monthly_income).income_tax)

\* C28: the last cent of the second bracket has been taxed
C28_Witness ==
  /\ Done("calculate_income_tax")
  /\ args.dependents = 0
  /\ args.monthly_income = Cents(282665)
  /\ ~IsError(result)
  /\ result.bracket = 2
  /\ OneCentMore(args.monthly_income).bracket = 3

(***************************************************************************)
(* Properties of the operations that look something up.                    *)
(***************************************************************************)
BusinessTools == {"lookup_cnpj", "check_simples_nacional"}

\* the CNPJ of the request passes the checksum
ValidCNPJ == Len(OnlyDigits(args.cnpj)) = 14 /\ CNPJAccepts(OnlyDigits(args.cnpj))

\* C29: lookup_cnpj checks the CNPJ before it contacts the registry: for an
\* invalid CNPJ no request is ever issued and the result is
\* {error: true, message: 'Invalid CNPJ'}; a call issues at most one request;
\* check_simples_nacional returns the error of a failed lookup unchanged
C29_ValidateBeforeLookup ==
  tool \in BusinessTools =>
    /\ Len(sent) <= 1
    /\ ~ValidCNPJ =>
         /\ sent = <<>>
         /\ pc # "waiting"
         /\ pc = "done" => result = [error |-> TRUE, message |-> "Invalid CNPJ"]
    /\ (ValidCNPJ /\ pc \in {"waiting", "done"}) =>
         sent = <<[url |-> "https://receitaws.com.br/v1/cnpj", digits |-> OnlyDigits(args.cnpj)]>>
    /\ (Done("check_simples_nacional") /\ IsError(lookupCNPJ(args.cnpj, replies))) =>
         result = lookupCNPJ(args.cnpj, replies)

\* C29: check_simples_nacional has returned the error of a lookup that the
\* registry answered with a failure
C29_Witness ==
  /\ Done("check_simples_nacional")
  /\ ValidCNPJ
  /\ Len(sent) = 1
  /\ replies[1].failed
  /\ IsError(result)

\* the number a CEP of eight digits denotes
CepValue(cep) == ParseDigits(OnlyDigits(cep), 8)

\* the lookup of this CEP of a calculate_distance call failed: the CEP has
\* not eight digits, or its request was answered with a failure or with erro
CepLookupFailed(cep, k) ==
  \/ Len(OnlyDigits(cep)) # 8
  \/ replies[k].failed
  \/ replies[k].data.erro

\* the place of the second CEP's request among those sent
SecondRequest == IF Len(OnlyDigits(args.cep1)) = 8 THEN 2 ELSE 1

\* the well-formed CEPs of a calculate_distance call, in order
WellFormedCeps ==
  SelectSeq(<<OnlyDigits(args.cep1), OnlyDigits(args.cep2)>>, LAMBDA d : Len(d) = 8)

\* the km of a distance depend on the two CEP numbers only, symmetrically,
\* and are 0 for equal numbers
KmOf(a, b) == IF a >= b THEN (a - b + 50) \div 100 ELSE (b - a + 50) \div 100

\* C30: calculate_distance starts both CEP lookups before it waits for
\* either; in whatever order they complete it returns the error 'Failed to
\* lookup one or both CEPs' exactly when at least one lookup failed, and
\* otherwise a distance that depends on the two CEP numbers only, is the same
\* with the CEPs exchanged and is 0 when they are equal
C30_Distance ==
  tool = "calculate_distance" =>
    /\ pc \in {"waiting", "done"} =>
         /\ Len(sent) = Len(WellFormedCeps)
         /\ \A i \in DOMAIN sent : sent[i].digits = WellFormedCeps[i]
    /\ pc = "done" =>
         IF CepLookupFailed(args.cep1, 1) \/ CepLookupFailed(args.cep2, SecondRequest)
         THEN result = [error |-> TRUE, message |-> "Failed to lookup one or both CEPs"]
         ELSE /\ ~IsError(result)
              /\ result.distance.km = KmOf(CepValue(args.cep1), CepValue(args.cep2))
              /\ result.distance.km = KmOf(CepValue(args.cep2), CepValue(args.cep1))
              /\ CepValue(args.cep1) = CepValue(args.cep2) =>
                   (result.distance.km = 0 /\ result.distance.miles = 0)
              /\ result.distance =
                   calculateDistance(args.cep2, args.cep1, <<replies[2], replies[1]>>).distance

\* C30: both lookups succeeded with different addresses and a distance other
\* than 0 has been returned
C30_Witness ==
  /\ Done("calculate_distance")
  /\ ~IsError(result)
  /\ result.distance.km > 0
  /\ result.from.cep # result.to.cep

\* the four document validators, the PIX, boleto and payroll operations
EnvelopeTools ==
  { "validate_cpf", "validate_cnpj", "validate_pis", "validate_voter_id",
    "generate_pix_qr", "validate_pix_key", "generate_boleto",
    "calculate_income_tax", "calculate_inss", "calculate_fgts",
    "calculate_vacation", "calculate_13th_salary" }

\* the operation called has thrown inside its try block: a method or a
\* property was read on an argument the bag does not carry
FailedInternally ==
  CASE tool \in {"validate_cpf", "validate_cnpj", "validate_pis", "validate_voter_id"} ->
         ~Has(FirstArgument(tool))
    [] tool = "generate_pix_qr" -> PixQRThrows
    [] tool = "validate_pix_key" -> PixKeyThrows
    [] tool = "generate_boleto" -> BoletoThrows
    [] OTHER -> ~Has(FirstArgument(tool))

\* C22: when one of the four document validators or of the PIX, boleto and
\* payroll operations has failed internally on a missing argument, its
\* result is the envelope {error: true, message}
C22_UniformEnvelope ==
  (pc = "done" /\ tool \in EnvelopeTools /\ ArgumentsGiven /\ FailedInternally) =>
    IsEnvelope(result)

\* a value JSON.stringify writes as an object: named members, at least one
IsObject(x) == DOMAIN x # {} /\ \A k \in DOMAIN x : k \in STRING

\* a call-tool response: one content item of type text, and at most isError
WellFormed(r) ==
  /\ "content" \in DOMAIN r
  /\ DOMAIN r \subseteq {"content", "isError"}
  /\ Len(r.content) = 1
  /\ DOMAIN r.content[1] = {"type", "text"}
  /\ r.content[1].type = "text"
  /\ IsObject(r.content[1].text)

====
